---- MODULE Spec2Model ----
(***************************************************************************)
(* A state-machine model of total-reclaw's memory engine: the lexical      *)
(* store FactsDB (facts table, FTS index, migrations, decay), the vector   *)
(* store VectorDB, the hybrid fuser and the plugin facade that ties them.  *)
(*                                                                         *)
(* Conventions                                                             *)
(*  - a string is a sequence of characters, each character a one-letter    *)
(*    TLA+ string ("a", "F", " "); accented letters are written as named   *)
(*    atoms ("e_acute");                                                   *)
(*  - SQL NULL / JS null is NULL for strings and NULLT for integers;       *)
(*    a JS `undefined` optional argument is UNDEF / UNDEFT / UndefConf;    *)
(*  - a real number (REAL column, JS number holding a fraction) is an      *)
(*    exact rational [n, d] in lowest terms;                               *)
(*  - times are whole seconds since the epoch, as in the code.             *)
(***************************************************************************)
EXTENDS Integers, Sequences, FiniteSets, TLC

(***************************************************************************)
(* Strings                                                                 *)
(***************************************************************************)
NULL == <<"NULL">>
UNDEF == <<"UNDEF">>

UpperAscii == <<"A","B","C","D","E","F","G","H","I","J","K","L","M",
                "N","O","P","Q","R","S","T","U","V","W","X","Y","Z">>
LowerAscii == <<"a","b","c","d","e","f","g","h","i","j","k","l","m",
                "n","o","p","q","r","s","t","u","v","w","x","y","z">>
Digits == <<"0","1","2","3","4","5","6","7","8","9">>

InSeq(c, s) == \E i \in 1..Len(s) : s[i] = c

IndexOf(c, s) == CHOOSE i \in 1..Len(s) : s[i] = c

\* SQLite's NOCASE collation folds the 26 upper-case ASCII letters only.
NocaseChar(c) == IF InSeq(c, UpperAscii) THEN LowerAscii[IndexOf(c, UpperAscii)] ELSE c

\* String.prototype.toLowerCase also folds the Latin-1 accented letters.
LowerChar(c) == IF c = "E_acute" THEN "e_acute" ELSE NocaseChar(c)

Nocase(s) == [i \in 1..Len(s) |-> NocaseChar(s[i])]

ToLowerCase(s) == [i \in 1..Len(s) |-> LowerChar(s[i])]

\* `a = b COLLATE NOCASE`; a comparison with NULL is never true.
EqNocase(a, b) == a # NULL /\ b # NULL /\ Nocase(a) = Nocase(b)

\* JS truthiness of a string | null | undefined value.
Truthy(s) == s # NULL /\ s # UNDEF /\ s # <<>>

\* s.startsWith(p)
StartsWith(s, p) == Len(p) <= Len(s) /\ SubSeq(s, 1, Len(p)) = p

\* s.includes(p)
Includes(s, p) ==
  \E i \in 0..(Len(s) - Len(p)) : SubSeq(s, i + 1, i + Len(p)) = p

\* \s of a JS regular expression.
IsSpace(c) == c = " " \/ c = "\n" \/ c = "\t"

\* \w of a JS regular expression.
IsWordChar(c) == InSeq(c, UpperAscii) \/ InSeq(c, LowerAscii) \/ InSeq(c, Digits) \/ c = "_"

\* /\b(p)\b/.test(s): p occurs in s between two word boundaries. Every
\* pattern used starts and ends with a word character.
MatchesWord(s, p) ==
  \E i \in 0..(Len(s) - Len(p)) :
    /\ SubSeq(s, i + 1, i + Len(p)) = p
    /\ (i = 0 \/ ~IsWordChar(s[i]))
    /\ (i + Len(p) = Len(s) \/ ~IsWordChar(s[i + Len(p) + 1]))

\* s.split(/\s+/): the pieces between runs of whitespace (a leading or
\* trailing run leaves an empty piece).
RECURSIVE SplitWs(_, _, _, _)
SplitWs(s, i, cur, acc) ==
  IF i > Len(s) THEN Append(acc, cur)
  ELSE IF IsSpace(s[i])
       THEN IF i > 1 /\ IsSpace(s[i - 1])
            THEN SplitWs(s, i + 1, cur, acc)
            ELSE SplitWs(s, i + 1, <<>>, Append(acc, cur))
       ELSE SplitWs(s, i + 1, Append(cur, s[i]), acc)

RECURSIVE Concat(_)
Concat(ss) == IF ss = <<>> THEN <<>> ELSE Head(ss) \o Concat(Tail(ss))

\* parts.join(sep)
RECURSIVE Join(_, _)
Join(parts, sep) ==
  IF parts = <<>> THEN <<>>
  ELSE IF Len(parts) = 1 THEN parts[1]
  ELSE parts[1] \o sep \o Join(Tail(parts), sep)

\* The decimal digits of a non-negative integer (template-literal `${n}`).
RECURSIVE DecimalOf(_)
DecimalOf(n) ==
  IF n < 10 THEN <<Digits[n + 1]>>
  ELSE DecimalOf(n \div 10) \o <<Digits[(n % 10) + 1]>>

(***************************************************************************)
(* Exact rationals for REAL columns and JS fractions                       *)
(***************************************************************************)
\* Euclid's algorithm; the remainder is bound as a value, so that it is
\* computed once.
RECURSIVE GCD(_, _)
GCD(a, b) == IF b = 0 THEN a ELSE CHOOSE g \in {GCD(b, r) : r \in {a % b}} : TRUE

Abs(x) == IF x < 0 THEN 0 - x ELSE x

\* n/d in lowest terms, d > 0.
Rat(n, d) ==
  LET g == GCD(Abs(n), d) IN [n |-> n \div g, d |-> d \div g]

RZero == [n |-> 0, d |-> 1]
ROne == [n |-> 1, d |-> 1]

RAdd(x, y) == Rat(x.n * y.d + y.n * x.d, x.d * y.d)
RSub(x, y) == Rat(x.n * y.d - y.n * x.d, x.d * y.d)
RMul(x, y) == Rat(x.n * y.n, x.d * y.d)

\* a/b <= c/d for a, c >= 0 and b, d > 0, by continued-fraction descent
\* (no cross product, so no 32-bit overflow).
RECURSIVE FracLe(_, _, _, _)
FracLe(a, b, c, d) ==
  LET qa == a \div b
      qc == c \div d
      ra == a % b
      rc == c % d
  IN IF qa # qc THEN qa < qc
     ELSE IF ra = 0 THEN TRUE
     ELSE IF rc = 0 THEN FALSE
     ELSE \E r \in {<<rc, ra>>} : FracLe(d, r[1], b, r[2])

RLe(x, y) ==
  IF x.n < 0 /\ y.n >= 0 THEN TRUE
  ELSE IF x.n >= 0 /\ y.n < 0 THEN FALSE
  ELSE IF x.n >= 0 THEN FracLe(x.n, x.d, y.n, y.d)
  ELSE FracLe(0 - y.n, y.d, 0 - x.n, x.d)

RLt(x, y) == RLe(x, y) /\ x # y

RMax(x, y) == IF RLe(x, y) THEN y ELSE x
RMin(x, y) == IF RLe(x, y) THEN x ELSE y

(***************************************************************************)
(* Decay classes, TTLs, classifier and expiry calculator                   *)
(***************************************************************************)
NULLT == -1
UNDEFT == -2

HOUR == 3600
DAY == 86400

DECAY_CLASSES == {"permanent", "stable", "active", "session", "checkpoint"}

\* TTL_DEFAULTS, in seconds; NULLT is the `null` TTL of permanent.
TTL_DEFAULTS ==
  [permanent |-> NULLT,
   stable |-> 90 * DAY,
   active |-> 14 * DAY,
   session |-> 24 * HOUR,
   checkpoint |-> 4 * HOUR]

permanentKeys ==
  <<<<"b","i","r","t","h","d","a","y">>, <<"b","o","r","n">>, <<"e","m","a","i","l">>, <<"p","h","o","n","e">>, <<"n","a","m","e">>, <<"r","e","a","l","_","n","a","m","e">>,
    <<"f","u","l","l","_","n","a","m","e">>, <<"a","p","i","_","k","e","y">>, <<"a","r","c","h","i","t","e","c","t","u","r","e">>, <<"l","a","n","g","u","a","g","e">>, <<"l","o","c","a","t","i","o","n">>,
    <<"s","t","a","c","k">>>>

permanentIdentityText == <<<<"b","o","r","n"," ","o","n">>, <<"b","i","r","t","h","d","a","y"," ","i","s">>, <<"e","m","a","i","l"," ","i","s">>, <<"p","h","o","n","e"," ","n","u","m","b","e","r">>>>

permanentRuleText ==
  <<<<"d","e","c","i","d","e","d">>, <<"a","r","c","h","i","t","e","c","t","u","r","e">>, <<"a","l","w","a","y","s"," ","u","s","e">>, <<"n","e","v","e","r"," ","u","s","e">>, <<"a","l","w","a","y","s">>, <<"n","e","v","e","r">>>>

sessionKeys == <<<<"c","u","r","r","e","n","t","_","f","i","l","e">>, <<"t","e","m","p">>, <<"d","e","b","u","g">>, <<"w","o","r","k","i","n","g","_","o","n","_","r","i","g","h","t","_","n","o","w">>>>

sessionText == <<<<"c","u","r","r","e","n","t","l","y"," ","d","e","b","u","g","g","i","n","g">>, <<"r","i","g","h","t"," ","n","o","w">>, <<"t","h","i","s"," ","s","e","s","s","i","o","n">>>>

activeKeys ==
  <<<<"c","u","r","r","e","n","t","_","t","a","s","k">>, <<"a","c","t","i","v","e","_","b","r","a","n","c","h">>, <<"s","p","r","i","n","t">>, <<"m","i","l","e","s","t","o","n","e">>, <<"t","a","s","k">>,
    <<"t","o","d","o">>, <<"w","i","p">>, <<"b","r","a","n","c","h">>, <<"b","l","o","c","k","e","r">>>>

\* /\b(working on|need to fix|todo:?|wip)\b/ : the optional colon never
\* decides the test, "todo" followed by a word boundary already matches.
activeText == <<<<"w","o","r","k","i","n","g"," ","o","n">>, <<"n","e","e","d"," ","t","o"," ","f","i","x">>, <<"t","o","d","o">>, <<"w","i","p">>>>

SomeIncludes(s, pats) == \E i \in 1..Len(pats) : Includes(s, pats[i])

SomeMatchesWord(s, pats) == \E i \in 1..Len(pats) : MatchesWord(s, pats[i])

OrEmpty(s) == IF Truthy(s) THEN s ELSE <<>>

\* Mutant of classifyDecay: the session rules are tried before the permanent
\* ones.
classifyDecay_SessionFirst(entity, key, value, text) ==
  LET keyLower == ToLowerCase(OrEmpty(key))
      textLower == ToLowerCase(text)
      entityLower == ToLowerCase(OrEmpty(entity))
  IN IF SomeIncludes(keyLower, sessionKeys) THEN "session"
     ELSE IF SomeMatchesWord(textLower, sessionText) THEN "session"
     ELSE IF SomeIncludes(keyLower, permanentKeys) THEN "permanent"
     ELSE IF SomeMatchesWord(textLower, permanentIdentityText) THEN "permanent"
     ELSE IF SomeMatchesWord(textLower, permanentRuleText) THEN "permanent"
     ELSE IF entityLower = <<"d","e","c","i","s","i","o","n">> \/ entityLower = <<"c","o","n","v","e","n","t","i","o","n">> THEN "permanent"
     ELSE IF SomeIncludes(keyLower, activeKeys) THEN "active"
     ELSE IF entityLower = <<"p","r","o","j","e","c","t">> \/ entityLower = <<"s","p","r","i","n","t">> THEN "active"
     ELSE IF SomeMatchesWord(textLower, activeText) THEN "active"
     ELSE IF StartsWith(keyLower, <<"c","h","e","c","k","p","o","i","n","t",":">>) \/ Includes(keyLower, <<"p","r","e","f","l","i","g","h","t">>)
          THEN "checkpoint"
     ELSE "stable"

classifyDecay(entity, key, value, text) ==
  LET keyLower == ToLowerCase(OrEmpty(key))
      textLower == ToLowerCase(text)
      entityLower == ToLowerCase(OrEmpty(entity))
  IN IF SomeIncludes(keyLower, permanentKeys) THEN "permanent"
     ELSE IF SomeMatchesWord(textLower, permanentIdentityText) THEN "permanent"
     ELSE IF SomeMatchesWord(textLower, permanentRuleText) THEN "permanent"
     ELSE IF entityLower = <<"d","e","c","i","s","i","o","n">> \/ entityLower = <<"c","o","n","v","e","n","t","i","o","n">> THEN "permanent"
     ELSE IF SomeIncludes(keyLower, sessionKeys) THEN "session"
     ELSE IF SomeMatchesWord(textLower, sessionText) THEN "session"
     ELSE IF SomeIncludes(keyLower, activeKeys) THEN "active"
     ELSE IF entityLower = <<"p","r","o","j","e","c","t">> \/ entityLower = <<"s","p","r","i","n","t">> THEN "active"
     ELSE IF SomeMatchesWord(textLower, activeText) THEN "active"
     ELSE IF StartsWith(keyLower, <<"c","h","e","c","k","p","o","i","n","t",":">>) \/ Includes(keyLower, <<"p","r","e","f","l","i","g","h","t">>)
          THEN "checkpoint"
     ELSE "stable"

\* Mutant of calculateExpiry: a class without TTL gets the stable one.
calculateExpiry_NeverNull(decayClass, nowSec) ==
  LET ttl == TTL_DEFAULTS[decayClass]
  IN IF ttl = NULLT THEN nowSec + TTL_DEFAULTS.stable ELSE nowSec + ttl

calculateExpiry(decayClass, nowSec) ==
  LET ttl == TTL_DEFAULTS[decayClass]
  IN IF ttl = NULLT THEN NULLT ELSE nowSec + ttl

(***************************************************************************)
(* Synonym expander                                                        *)
(***************************************************************************)

SYNONYM_MAP == <<
  [term |-> <<"p","o","s","t","g","r","e","s","q","l">>,
   synonyms |-> <<<<"d","a","t","a","b","a","s","e">>,
                 <<"d","b">>,
                 <<"s","q","l">>,
                 <<"p","o","s","t","g","r","e","s">>,
                 <<"r","d","b","m","s">>>>],
  [term |-> <<"m","y","s","q","l">>,
   synonyms |-> <<<<"d","a","t","a","b","a","s","e">>,
                 <<"d","b">>,
                 <<"s","q","l">>,
                 <<"r","d","b","m","s">>>>],
  [term |-> <<"s","q","l","i","t","e">>,
   synonyms |-> <<<<"d","a","t","a","b","a","s","e">>,
                 <<"d","b">>,
                 <<"s","q","l">>,
                 <<"r","d","b","m","s">>>>],
  [term |-> <<"m","o","n","g","o","d","b">>,
   synonyms |-> <<<<"d","a","t","a","b","a","s","e">>,
                 <<"d","b">>,
                 <<"n","o","s","q","l">>,
                 <<"d","o","c","u","m","e","n","t"," ","s","t","o","r","e">>>>],
  [term |-> <<"r","e","d","i","s">>,
   synonyms |-> <<<<"c","a","c","h","e">>,
                 <<"c","a","c","h","i","n","g">>,
                 <<"k","e","y","-","v","a","l","u","e">>,
                 <<"i","n","-","m","e","m","o","r","y">>>>],
  [term |-> <<"g","i","t","h","u","b"," ","a","c","t","i","o","n","s">>,
   synonyms |-> <<<<"c","i">>,
                 <<"c","d">>,
                 <<"c","i","c","d">>,
                 <<"c","o","n","t","i","n","u","o","u","s"," ","i","n","t","e","g","r","a","t","i","o","n">>,
                 <<"c","o","n","t","i","n","u","o","u","s"," ","d","e","l","i","v","e","r","y">>,
                 <<"p","i","p","e","l","i","n","e">>>>],
  [term |-> <<"g","i","t","l","a","b"," ","c","i">>,
   synonyms |-> <<<<"c","i">>,
                 <<"c","d">>,
                 <<"c","i","c","d">>,
                 <<"c","o","n","t","i","n","u","o","u","s"," ","i","n","t","e","g","r","a","t","i","o","n">>,
                 <<"p","i","p","e","l","i","n","e">>>>],
  [term |-> <<"j","e","n","k","i","n","s">>,
   synonyms |-> <<<<"c","i">>,
                 <<"c","d">>,
                 <<"c","i","c","d">>,
                 <<"c","o","n","t","i","n","u","o","u","s"," ","i","n","t","e","g","r","a","t","i","o","n">>,
                 <<"p","i","p","e","l","i","n","e">>>>],
  [term |-> <<"r","e","a","c","t">>,
   synonyms |-> <<<<"f","r","o","n","t","e","n","d">>,
                 <<"u","i">>,
                 <<"s","p","a">>,
                 <<"c","o","m","p","o","n","e","n","t">>,
                 <<"j","s","x">>>>],
  [term |-> <<"n","e","x","t",".","j","s">>,
   synonyms |-> <<<<"f","r","o","n","t","e","n","d">>,
                 <<"s","s","r">>,
                 <<"r","e","a","c","t"," ","f","r","a","m","e","w","o","r","k">>,
                 <<"f","u","l","l","s","t","a","c","k">>>>],
  [term |-> <<"v","u","e">>,
   synonyms |-> <<<<"f","r","o","n","t","e","n","d">>,
                 <<"u","i">>,
                 <<"s","p","a">>,
                 <<"c","o","m","p","o","n","e","n","t">>>>],
  [term |-> <<"t","a","i","l","w","i","n","d">>,
   synonyms |-> <<<<"c","s","s">>,
                 <<"s","t","y","l","i","n","g">>,
                 <<"d","e","s","i","g","n">>,
                 <<"c","s","s"," ","f","r","a","m","e","w","o","r","k">>>>],
  [term |-> <<"b","o","o","t","s","t","r","a","p">>,
   synonyms |-> <<<<"c","s","s">>,
                 <<"s","t","y","l","i","n","g">>,
                 <<"d","e","s","i","g","n">>,
                 <<"c","s","s"," ","f","r","a","m","e","w","o","r","k">>>>],
  [term |-> <<"f","a","s","t","a","p","i">>,
   synonyms |-> <<<<"b","a","c","k","e","n","d">>,
                 <<"a","p","i">>,
                 <<"p","y","t","h","o","n">>,
                 <<"r","e","s","t">>>>],
  [term |-> <<"e","x","p","r","e","s","s">>,
   synonyms |-> <<<<"b","a","c","k","e","n","d">>,
                 <<"a","p","i">>,
                 <<"n","o","d","e">>,
                 <<"r","e","s","t">>>>],
  [term |-> <<"t","u","r","b","o","r","e","p","o">>,
   synonyms |-> <<<<"m","o","n","o","r","e","p","o">>,
                 <<"b","u","i","l","d">>,
                 <<"w","o","r","k","s","p","a","c","e">>>>],
  [term |-> <<"b","u","n">>,
   synonyms |-> <<<<"r","u","n","t","i","m","e">>,
                 <<"p","a","c","k","a","g","e"," ","m","a","n","a","g","e","r">>,
                 <<"b","u","n","d","l","e","r">>>>],
  [term |-> <<"n","o","d","e">>,
   synonyms |-> <<<<"r","u","n","t","i","m","e">>,
                 <<"j","a","v","a","s","c","r","i","p","t">>,
                 <<"b","a","c","k","e","n","d">>>>],
  [term |-> <<"t","a","b","s">>,
   synonyms |-> <<<<"i","n","d","e","n","t","a","t","i","o","n">>,
                 <<"f","o","r","m","a","t","t","i","n","g">>,
                 <<"c","o","d","e"," ","s","t","y","l","e">>,
                 <<"w","h","i","t","e","s","p","a","c","e">>>>],
  [term |-> <<"s","p","a","c","e","s">>,
   synonyms |-> <<<<"i","n","d","e","n","t","a","t","i","o","n">>,
                 <<"f","o","r","m","a","t","t","i","n","g">>,
                 <<"c","o","d","e"," ","s","t","y","l","e">>,
                 <<"w","h","i","t","e","s","p","a","c","e">>>>],
  [term |-> <<"s","n","a","k","e","_","c","a","s","e">>,
   synonyms |-> <<<<"n","a","m","i","n","g">>,
                 <<"c","o","n","v","e","n","t","i","o","n">>,
                 <<"c","o","d","e"," ","s","t","y","l","e">>,
                 <<"f","o","r","m","a","t","t","i","n","g">>>>],
  [term |-> <<"c","a","m","e","l","c","a","s","e">>,
   synonyms |-> <<<<"n","a","m","i","n","g">>,
                 <<"c","o","n","v","e","n","t","i","o","n">>,
                 <<"c","o","d","e"," ","s","t","y","l","e">>,
                 <<"f","o","r","m","a","t","t","i","n","g">>>>],
  [term |-> <<"v","i","m">>,
   synonyms |-> <<<<"e","d","i","t","o","r">>,
                 <<"k","e","y","b","i","n","d","i","n","g","s">>,
                 <<"n","e","o","v","i","m">>>>],
  [term |-> <<"v","s","c","o","d","e">>,
   synonyms |-> <<<<"e","d","i","t","o","r">>,
                 <<"i","d","e">>>>],
  [term |-> <<"c","u","r","s","o","r">>,
   synonyms |-> <<<<"e","d","i","t","o","r">>,
                 <<"i","d","e">>,
                 <<"a","i"," ","e","d","i","t","o","r">>>>],
  [term |-> <<"t","y","p","e","s","c","r","i","p","t">>,
   synonyms |-> <<<<"l","a","n","g","u","a","g","e">>,
                 <<"t","y","p","e","d">>,
                 <<"j","a","v","a","s","c","r","i","p","t">>,
                 <<"j","s">>,
                 <<"t","s">>>>],
  [term |-> <<"j","a","v","a","s","c","r","i","p","t">>,
   synonyms |-> <<<<"l","a","n","g","u","a","g","e">>,
                 <<"j","s">>,
                 <<"s","c","r","i","p","t","i","n","g">>>>],
  [term |-> <<"m","i","t">>,
   synonyms |-> <<<<"l","i","c","e","n","s","e">>,
                 <<"o","p","e","n"," ","s","o","u","r","c","e">>,
                 <<"o","s","s">>>>],
  [term |-> <<"d","o","c","k","e","r">>,
   synonyms |-> <<<<"c","o","n","t","a","i","n","e","r">>,
                 <<"c","o","n","t","a","i","n","e","r","i","z","a","t","i","o","n">>,
                 <<"d","e","p","l","o","y","m","e","n","t">>>>]
>>

\* The Set of tags, in insertion order.
RECURSIVE AddAll(_, _)
AddAll(tags, syns) ==
  IF syns = <<>> THEN tags
  ELSE AddAll(IF InSeq(Head(syns), tags) THEN tags ELSE Append(tags, Head(syns)),
              Tail(syns))

RECURSIVE CollectTags(_, _, _)
CollectTags(combined, i, tags) ==
  IF i > Len(SYNONYM_MAP) THEN tags
  ELSE CollectTags(combined, i + 1,
         IF Includes(combined, ToLowerCase(SYNONYM_MAP[i].term))
         THEN AddAll(tags, SYNONYM_MAP[i].synonyms)
         ELSE tags)

\* [text, entity, key, value].filter(Boolean)
FilterTruthy(parts) == SelectSeq(parts, LAMBDA s : Truthy(s))

generateSearchTags(text, entity, key, value) ==
  LET combined == ToLowerCase(Join(FilterTruthy(<<text, entity, key, value>>), <<" ">>))
  IN Join(CollectTags(combined, 1, <<>>), <<" ">>)

(***************************************************************************)
(* Bounds of the model                                                     *)
(***************************************************************************)
\* Calls of FactsDB methods in one behaviour.
MaxCalls == 2
\* Clock advances in one behaviour.
MaxTicks == 1
\* memory_store calls in one behaviour (they may overlap).
MaxTasks == 2

\* Calls of the synchronous tools in one behaviour.
MaxToolCalls == 3
\* Clock advances between tool calls in one behaviour.
MaxToolTicks == 2
MaxForgetCalls == 2
MaxLiveCalls == 2
MaxLiveTicks == 3

\* The epoch second the behaviours start at (a whole hour).
T0 == 472222 * HOUR

\* What the clock advances by between two calls: the TTL of session records
\* (a step lands exactly on their expiresAt, past the expiresAt of
\* checkpoints, and part way into the window of active and stable records).
ClockSteps == {TTL_DEFAULTS.session}

(***************************************************************************)
(* State                                                                   *)
(***************************************************************************)
VARIABLES
  now,        \* Math.floor(Date.now() / 1000)
  ticks,      \* clock advances so far
  facts,      \* the rows of table facts
  facts_fts,  \* the rows of the FTS5 index facts_fts (content=facts)
  uuids,      \* UUIDs handed out by randomUUID() so far
  calls,      \* calls made so far
  ret,        \* the last call and what it returned
  vectors,    \* the rows of the LanceDB table memories, in insertion order
  tasks       \* the memory_store calls: where each one stands

vars == <<now, ticks, facts, facts_fts, uuids, calls, ret, vectors, tasks>>

\* CAST(x AS REAL) / CAST(y AS REAL), y > 0
RealDiv(x, y) == Rat(x, y)

(***************************************************************************)
(* Table facts, its unique index and the FTS triggers                      *)
(***************************************************************************)
FtsColumns(row) ==
  [rowid |-> row.rowid, text |-> row.text, category |-> row.category,
   entity |-> row.entity, key |-> row.key, value |-> row.value,
   search_tags |-> row.search_tags]

\* The implicit rowid of a new row: one more than the largest in the table.
NextRowid(rows) ==
  IF rows = {} THEN 1
  ELSE 1 + CHOOSE m \in {r.rowid : r \in rows} : \A r \in rows : r.rowid <= m

\* idx_facts_entity_key_unique ON facts(entity COLLATE NOCASE, key COLLATE
\* NOCASE): two rows collide when both columns are non-NULL and equal.
UniqueConflict(rows, entity, key) ==
  \E r \in rows : EqNocase(r.entity, entity) /\ EqNocase(r.key, key)

\* Trigger facts_ai: AFTER INSERT, index the new row.
Trigger_ai(fts, new) == fts \cup {FtsColumns(new)}

\* Trigger facts_ad: AFTER DELETE, remove the old row's entry.
Trigger_ad(fts, old) == fts \ {FtsColumns(old)}

\* Mutant of Trigger_au: the old entry is not deleted.
Trigger_au_KeepsOld(fts, old, new) == fts \cup {FtsColumns(new)}

\* Trigger facts_au: AFTER UPDATE, replace the old entry by the new one.
Trigger_au(fts, old, new) == (fts \ {FtsColumns(old)}) \cup {FtsColumns(new)}

RECURSIVE ApplyAu(_, _)
ApplyAu(fts, pairs) ==
  IF pairs = {} THEN fts
  ELSE LET p == CHOOSE p \in pairs : TRUE
       IN ApplyAu(Trigger_au(fts, p[1], p[2]), pairs \ {p})

RECURSIVE ApplyAd(_, _)
ApplyAd(fts, olds) ==
  IF olds = {} THEN fts
  ELSE LET o == CHOOSE o \in olds : TRUE
       IN ApplyAd(Trigger_ad(fts, o), olds \ {o})

\* UPDATE facts SET <f(row)> WHERE <row \in sel>; facts_au fires per row.
UpdateRows(sel, f(_)) ==
  /\ facts' = (facts \ sel) \cup {f(r) : r \in sel}
  /\ facts_fts' = ApplyAu(facts_fts, {<<r, f(r)>> : r \in sel})

\* DELETE FROM facts WHERE <row \in sel>; facts_ad fires per row.
DeleteRows(sel) ==
  /\ facts' = facts \ sel
  /\ facts_fts' = ApplyAd(facts_fts, sel)

\* INSERT INTO facts VALUES <row>, with trigger facts_ai.
InsertRow(row) ==
  /\ facts' = facts \cup {row}
  /\ facts_fts' = Trigger_ai(facts_fts, row)

\* No call is in progress: the caller has taken the last result.
Idle == [op |-> "idle"]

\* A call of a FactsDB method starts when none is in progress; it is
\* synchronous and touches neither the vector table nor a tool call.
Call ==
  /\ ret = Idle
  /\ calls < MaxCalls
  /\ calls' = calls + 1
  /\ UNCHANGED <<vectors, tasks>>

NoDecayClass == "undefined"
UndefConf == [n |-> 0, d |-> 0]

(***************************************************************************)
(* JS regular expressions: the fragment extraction.ts uses                 *)
(***************************************************************************)
\* A pattern is a sequence of nodes; String.prototype.match tries the start
\* positions from the left and, at each, the alternatives in order with
\* backtracking.
Lit(s) == [t |-> "lit", s |-> s]
Cls(c) == [t |-> "cls", c |-> c]
Star(c) == [t |-> "star", c |-> c]
Lazy(c) == [t |-> "lazy", c |-> c]
Alt(alts) == [t |-> "alt", alts |-> alts]
Opt(p) == [t |-> "opt", p |-> p]
Open(n) == [t |-> "open", n |-> n]
Close(n) == [t |-> "close", n |-> n]
End == [t |-> "end"]
WordB == [t |-> "wordb"]

\* c+, c+? and a capturing group
Plus(c) == <<Cls(c), Star(c)>>
LazyPlus(c) == <<Cls(c), Lazy(c)>>
Group(n, p) == <<Open(n)>> \o p \o <<Close(n)>>

\* (?:w1|w2|...)
Words(ws) == Alt([i \in 1..Len(ws) |-> <<Lit(ws[i])>>])

\* The character classes: . \s \w \d [A-Z] [a-z] [\w.-] [Ii] [Mm] [^*]
ClassHas(c, ch) ==
  CASE c = "dot" -> ch # "\n" /\ ch # "\r"
    [] c = "notStar" -> ch # "*"
    [] c = "space" -> IsSpace(ch)
    [] c = "word" -> IsWordChar(ch)
    [] c = "digit" -> InSeq(ch, Digits)
    [] c = "upper" -> InSeq(ch, UpperAscii)
    [] c = "lower" -> InSeq(ch, LowerAscii)
    [] c = "wordDotDash" -> IsWordChar(ch) \/ ch = "." \/ ch = "-"
    [] c = "Ii" -> ch = "I" \/ ch = "i"
    [] c = "Mm" -> ch = "M" \/ ch = "m"

\* The literal w stands at position pos of s (case folded under the i flag).
LitAt(s, pos, w, ci) ==
  /\ pos + Len(w) - 1 <= Len(s)
  /\ LET got == SubSeq(s, pos, pos + Len(w) - 1)
     IN IF ci THEN ToLowerCase(got) = ToLowerCase(w) ELSE got = w

NoMatch == <<>>
NoGroups == <<<<0, 0>>, <<0, 0>>, <<0, 0>>>>

\* The one attempt in `first` if it matched, else `other` (tried only then).
Either(first, other) ==
  CHOOSE m \in {IF x # NoMatch THEN x ELSE other : x \in first} : TRUE

\* The groups of the first way pattern k matches s from pos, or NoMatch.
RECURSIVE Rx(_, _, _, _, _)
Rx(k, s, pos, caps, ci) ==
  IF k = <<>> THEN caps
  ELSE
    LET h == Head(k)
        rest == Tail(k)
        here == pos <= Len(s) /\ ClassHas(h.c, s[pos])
    IN CASE h.t = "lit" ->
              IF LitAt(s, pos, h.s, ci)
              THEN Rx(rest, s, pos + Len(h.s), caps, ci) ELSE NoMatch
         [] h.t = "cls" ->
              IF here THEN Rx(rest, s, pos + 1, caps, ci) ELSE NoMatch
         [] h.t = "star" ->
              Either({IF here THEN Rx(k, s, pos + 1, caps, ci) ELSE NoMatch},
                     Rx(rest, s, pos, caps, ci))
         [] h.t = "lazy" ->
              Either({Rx(rest, s, pos, caps, ci)},
                     IF here THEN Rx(k, s, pos + 1, caps, ci) ELSE NoMatch)
         [] h.t = "alt" ->
              IF h.alts = <<>> THEN NoMatch
              ELSE Either({Rx(Head(h.alts) \o rest, s, pos, caps, ci)},
                          Rx(<<Alt(Tail(h.alts))>> \o rest, s, pos, caps, ci))
         [] h.t = "opt" ->
              Either({Rx(h.p \o rest, s, pos, caps, ci)}, Rx(rest, s, pos, caps, ci))
         [] h.t = "open" ->
              Rx(rest, s, pos, [caps EXCEPT ![h.n] = <<pos, 0>>], ci)
         [] h.t = "close" ->
              Rx(rest, s, pos, [caps EXCEPT ![h.n] = <<caps[h.n][1], pos - 1>>], ci)
         [] h.t = "end" ->
              IF pos = Len(s) + 1 THEN Rx(rest, s, pos, caps, ci) ELSE NoMatch
         [] h.t = "wordb" ->
              IF (pos > 1 /\ IsWordChar(s[pos - 1])) # (pos <= Len(s) /\ IsWordChar(s[pos]))
              THEN Rx(rest, s, pos, caps, ci) ELSE NoMatch

\* The groups of the first match of p in s that starts at pos or later.
RECURSIVE MatchFrom(_, _, _, _)
MatchFrom(s, p, pos, ci) ==
  IF pos > Len(s) + 1 THEN NoMatch
  ELSE Either({Rx(p, s, pos, NoGroups, ci)}, MatchFrom(s, p, pos + 1, ci))

\* s.match(p): the groups of the leftmost match, or NoMatch (null).
Match(s, p, ci) == MatchFrom(s, p, 1, ci)

\* m[n]: the text of group n, undefined when the group took no part.
GroupOf(s, m, n) ==
  IF m[n][1] = 0 THEN UNDEF ELSE SubSeq(s, m[n][1], m[n][2])

\* s.trim()
RECURSIVE TrimStart(_)
TrimStart(s) ==
  IF s # <<>> /\ IsSpace(Head(s)) THEN TrimStart(Tail(s)) ELSE s

RECURSIVE TrimEnd(_)
TrimEnd(s) ==
  IF s # <<>> /\ IsSpace(s[Len(s)]) THEN TrimEnd(SubSeq(s, 1, Len(s) - 1)) ELSE s

Trim(s) == TrimEnd(TrimStart(s))

\* s.slice(0, 100)
Slice100(s) == IF Len(s) > 100 THEN SubSeq(s, 1, 100) ELSE s

\* m[n]?.trim() || fallback
TrimOr(s, m, n, fallback) ==
  IF GroupOf(s, m, n) # UNDEF /\ Trim(GroupOf(s, m, n)) # <<>>
  THEN Trim(GroupOf(s, m, n)) ELSE fallback

(***************************************************************************)
(* extractStructuredFields                                                 *)
(***************************************************************************)
Because == <<<<"b","e","c","a","u","s","e">>, <<"s","i","n","c","e">>, <<"f","o","r">>, <<"d","u","e"," ","t","o">>>>

\* (?:\s+(?:because|...)\s+(.+?))?\.?$ with the reason in group n
ReasonTail(seps, n) ==
  <<Opt(Plus("space") \o <<Words(seps)>> \o Plus("space") \o Group(n, LazyPlus("dot"))),
    Opt(<<Lit(<<".">>)>>), End>>

\* \s+(.+?)\.?$ with the text in group n
PlainTail(n) ==
  Plus("space") \o Group(n, LazyPlus("dot")) \o <<Opt(<<Lit(<<".">>)>>), End>>

decisionRe ==
  <<Words(<<<<"d","e","c","i","d","e","d">>, <<"c","h","o","s","e">>, <<"p","i","c","k","e","d">>, <<"w","e","n","t"," ","w","i","t","h">>, <<"s","e","l","e","c","t","e","d">>, <<"c","h","o","o","s","i","n","g">>>>)>>
  \o Plus("space")
  \o <<Opt(<<Lit(<<"t","o">>)>> \o Plus("space")), Opt(<<Lit(<<"u","s","e">>)>> \o Plus("space"))>>
  \o Group(1, LazyPlus("dot"))
  \o ReasonTail(Because \o <<<<"o","v","e","r">>>>, 2)

choiceRe ==
  <<Words(<<<<"u","s","e">>, <<"u","s","i","n","g">>, <<"c","h","o","s","e">>, <<"p","r","e","f","e","r">>, <<"p","i","c","k","e","d">>>>)>>
  \o Plus("space") \o Group(1, LazyPlus("dot")) \o Plus("space")
  \o <<Words(<<<<"o","v","e","r">>, <<"i","n","s","t","e","a","d"," ","o","f">>, <<"r","a","t","h","e","r"," ","t","h","a","n">>>>)>>
  \o Plus("space") \o Group(2, LazyPlus("dot"))
  \o ReasonTail(Because, 3)

ruleRe ==
  <<Words(<<<<"a","l","w","a","y","s">>, <<"n","e","v","e","r">>, <<"m","u","s","t">>, <<"s","h","o","u","l","d"," ","a","l","w","a","y","s">>, <<"s","h","o","u","l","d"," ","n","e","v","e","r">>>>)>>
  \o PlainTail(1)

possessiveRe ==
  <<Alt(<<Group(1, Plus("word") \o <<Opt(Plus("space") \o Plus("word"))>>) \o <<Lit(<<"'","s">>)>>,
          <<Cls("Mm"), Lit(<<"y">>)>>>>)>>
  \o Plus("space") \o Group(2, LazyPlus("dot")) \o Plus("space")
  \o <<Words(<<<<"i","s">>, <<"a","r","e">>, <<"w","a","s">>>>)>>
  \o PlainTail(3)

preferRe ==
  <<Cls("Ii")>> \o Plus("space")
  \o Group(1, <<Words(<<<<"p","r","e","f","e","r">>, <<"l","i","k","e">>, <<"l","o","v","e">>, <<"h","a","t","e">>, <<"w","a","n","t">>, <<"n","e","e","d">>, <<"u","s","e">>>>)>>)
  \o PlainTail(2)

frDecisionRe ==
  <<Words(<<<<"o","n"," ","a"," ","d","e_acute","c","i","d","e_acute">>, <<"o","n"," ","a"," ","c","h","o","i","s","i">>, <<"o","n"," ","u","t","i","l","i","s","e">>, <<"o","n"," ","p","r","e","n","d">>>>)>>
  \o Plus("space") \o Group(1, LazyPlus("dot"))
  \o ReasonTail(<<<<"p","a","r","c","e"," ","q","u","e">>, <<"c","a","r">>, <<"p","o","u","r">>>>, 2)

frRuleRe ==
  <<Words(<<<<"t","o","u","j","o","u","r","s">>, <<"j","a","m","a","i","s">>>>)>> \o Plus("space")
  \o <<Words(<<<<"u","t","i","l","i","s","e","r">>, <<"f","a","i","r","e">>, <<"m","e","t","t","r","e">>>>)>>
  \o PlainTail(1)

frPossessiveRe ==
  <<Words(<<<<"m","o","n">>, <<"m","a">>, <<"m","e","s">>, <<"s","o","n">>, <<"s","a">>, <<"s","e","s">>>>)>>
  \o Plus("space") \o Group(1, LazyPlus("dot")) \o Plus("space")
  \o <<Words(<<<<"e","s","t">>, <<"c","'","e","s","t">>, <<"s","o","n","t">>>>)>>
  \o PlainTail(2)

frPreferRe ==
  <<Lit(<<"j","e">>)>> \o Plus("space")
  \o <<Words(<<<<"p","r","e_acute","f","e_grave","r","e">>, <<"p","r","e_acute","f","e","r","e">>, <<"a","i","m","e">>, <<"d","e_acute","t","e","s","t","e">>, <<"v","e","u","x">>, <<"u","t","i","l","i","s","e">>>>)>>
  \o PlainTail(1)

emailRe ==
  Group(1, Plus("wordDotDash") \o <<Lit(<<"@">>)>> \o Plus("wordDotDash")
           \o <<Lit(<<".">>)>> \o Plus("word"))

phoneRe ==
  Group(1, <<Opt(<<Lit(<<"+">>)>>)>> \o [i \in 1..10 |-> Cls("digit")] \o <<Star("digit")>>)

Fields(entity, key, value) == [entity |-> entity, key |-> key, value |-> value]

\* words.filter(w => /^[A-Z][a-z]+/.test(w))
ProperNouns(text) ==
  SelectSeq(SplitWs(text, 1, <<>>, <<>>),
            LAMBDA w : Len(w) >= 2 /\ ClassHas("upper", w[1]) /\ ClassHas("lower", w[2]))

extractStructuredFields(text, category) ==
  LET lower == ToLowerCase(text)
      decisionMatch == Match(text, decisionRe, TRUE)
      choiceMatch == Match(text, choiceRe, TRUE)
      ruleMatch == Match(text, ruleRe, TRUE)
      possessiveMatch == Match(text, possessiveRe, FALSE)
      preferMatch == Match(text, preferRe, FALSE)
      frDecisionMatch == Match(text, frDecisionRe, TRUE)
      frRuleMatch == Match(text, frRuleRe, TRUE)
      frPossessiveMatch == Match(text, frPossessiveRe, TRUE)
      frPreferMatch == Match(text, frPreferRe, TRUE)
      emailMatch == Match(text, emailRe, FALSE)
      phoneMatch == Match(text, phoneRe, FALSE)
  IN IF decisionMatch # NoMatch
     THEN Fields(<<"d","e","c","i","s","i","o","n">>, Slice100(Trim(GroupOf(text, decisionMatch, 1))),
                 TrimOr(text, decisionMatch, 2, <<"n","o"," ","r","a","t","i","o","n","a","l","e"," ","r","e","c","o","r","d","e","d">>))
     ELSE IF choiceMatch # NoMatch
     THEN Fields(<<"d","e","c","i","s","i","o","n">>,
                 Trim(GroupOf(text, choiceMatch, 1)) \o <<" ","o","v","e","r"," ">> \o Trim(GroupOf(text, choiceMatch, 2)),
                 TrimOr(text, choiceMatch, 3, <<"p","r","e","f","e","r","e","n","c","e">>))
     ELSE IF ruleMatch # NoMatch
     THEN Fields(<<"c","o","n","v","e","n","t","i","o","n">>, Slice100(Trim(GroupOf(text, ruleMatch, 1))),
                 IF Includes(lower, <<"n","e","v","e","r">>) THEN <<"n","e","v","e","r">> ELSE <<"a","l","w","a","y","s">>)
     ELSE IF possessiveMatch # NoMatch
     THEN Fields(IF Truthy(GroupOf(text, possessiveMatch, 1))
                 THEN GroupOf(text, possessiveMatch, 1) ELSE <<"u","s","e","r">>,
                 Trim(GroupOf(text, possessiveMatch, 2)),
                 Trim(GroupOf(text, possessiveMatch, 3)))
     ELSE IF preferMatch # NoMatch
     THEN Fields(<<"u","s","e","r">>, GroupOf(text, preferMatch, 1), Trim(GroupOf(text, preferMatch, 2)))
     ELSE IF frDecisionMatch # NoMatch
     THEN Fields(<<"d","e","c","i","s","i","o","n">>, Slice100(Trim(GroupOf(text, frDecisionMatch, 1))),
                 TrimOr(text, frDecisionMatch, 2, <<"p","a","s"," ","d","e"," ","j","u","s","t","i","f","i","c","a","t","i","o","n">>))
     ELSE IF frRuleMatch # NoMatch
     THEN Fields(<<"c","o","n","v","e","n","t","i","o","n">>, Slice100(Trim(GroupOf(text, frRuleMatch, 1))),
                 IF Includes(lower, <<"j","a","m","a","i","s">>) THEN <<"n","e","v","e","r">> ELSE <<"a","l","w","a","y","s">>)
     ELSE IF frPossessiveMatch # NoMatch
     THEN Fields(<<"u","s","e","r">>, Trim(GroupOf(text, frPossessiveMatch, 1)),
                 Trim(GroupOf(text, frPossessiveMatch, 2)))
     ELSE IF frPreferMatch # NoMatch
     THEN Fields(<<"u","s","e","r">>, <<"p","r","e","f","e","r">>, Trim(GroupOf(text, frPreferMatch, 1)))
     ELSE IF emailMatch # NoMatch
     THEN Fields(NULL, <<"e","m","a","i","l">>, GroupOf(text, emailMatch, 1))
     ELSE IF phoneMatch # NoMatch
     THEN Fields(NULL, <<"p","h","o","n","e">>, GroupOf(text, phoneMatch, 1))
     ELSE IF category = <<"e","n","t","i","t","y">> /\ ProperNouns(text) # <<>>
     THEN Fields(ProperNouns(text)[1], NULL, NULL)
     ELSE Fields(NULL, NULL, NULL)

(***************************************************************************)
(* extraction.ts: shouldCapture and detectCategory                         *)
(***************************************************************************)
\* A regular expression with or without the i flag.
Re(p) == [p |-> p, ci |-> FALSE]
ReI(p) == [p |-> p, ci |-> TRUE]

\* r.test(s)
Test(r, s) == Match(s, r.p, r.ci) # NoMatch

\* list.some(r => r.test(s))
SomeTest(list, s) == \E i \in 1..Len(list) : Test(list[i], s)

\* \d{10,}
TenDigits == [i \in 1..10 |-> Cls("digit")] \o <<Star("digit")>>

MEMORY_TRIGGERS ==
  <<ReI(<<Words(<<<<"r","e","m","e","m","b","e","r">>, <<"z","a","p","a","m","a","t","u","j"," ","s","i">>, <<"p","a","m","a","t","u","j">>>>)>>),
    ReI(<<Words(<<<<"p","r","e","f","e","r">>, <<"r","a","d","s_caron","i">>, <<"n","e","c","h","c","i">>>>)>>),
    ReI(<<Words(<<<<"d","e","c","i","d","e","d">>, <<"r","o","z","h","o","d","l","i"," ","j","s","m","e">>, <<"b","u","d","e","m","e"," ","p","o","u","z_caron","i_acute","v","a","t">>>>)>>),
    Re(<<Lit(<<"+">>)>> \o TenDigits),
    Re(Plus("wordDotDash") \o <<Lit(<<"@">>)>> \o Plus("wordDotDash") \o <<Lit(<<".">>)>> \o Plus("word")),
    ReI(<<Alt(<<<<Lit(<<"m","y">>)>> \o Plus("space") \o Plus("word") \o Plus("space") \o <<Lit(<<"i","s">>)>>,
                <<Lit(<<"i","s">>)>> \o Plus("space") \o <<Lit(<<"m","y">>)>>>>)>>),
    ReI(<<Lit(<<"i"," ">>), Words(<<<<"l","i","k","e">>, <<"p","r","e","f","e","r">>, <<"h","a","t","e">>, <<"l","o","v","e">>, <<"w","a","n","t">>, <<"n","e","e","d">>>>)>>),
    ReI(<<Words(<<<<"a","l","w","a","y","s">>, <<"n","e","v","e","r">>, <<"i","m","p","o","r","t","a","n","t">>>>)>>),
    ReI(<<Words(<<<<"b","o","r","n"," ","o","n">>, <<"b","i","r","t","h","d","a","y">>, <<"l","i","v","e","s"," ","i","n">>, <<"w","o","r","k","s"," ","a","t">>>>)>>),
    ReI(<<Words(<<<<"p","a","s","s","w","o","r","d"," ","i","s">>, <<"a","p","i"," ","k","e","y">>, <<"t","o","k","e","n"," ","i","s">>>>)>>),
    ReI(<<Words(<<<<"c","h","o","s","e">>, <<"s","e","l","e","c","t","e","d">>, <<"w","e","n","t"," ","w","i","t","h">>, <<"p","i","c","k","e","d">>>>)>>),
    ReI(<<Alt(<<<<Lit(<<"o","v","e","r">>), Star("dot"), Lit(<<"b","e","c","a","u","s","e">>)>>,
                <<Lit(<<"i","n","s","t","e","a","d"," ","o","f">>), Star("dot"), Lit(<<"s","i","n","c","e">>)>>>>)>>),
    ReI(<<Alt(<<<<WordB, Lit(<<"a","l","w","a","y","s">>), WordB, Star("dot"), WordB, Lit(<<"u","s","e">>), WordB>>,
                <<WordB, Lit(<<"n","e","v","e","r">>), WordB, Star("dot"), WordB, Lit(<<"u","s","e">>), WordB>>>>)>>),
    ReI(<<Words(<<<<"a","r","c","h","i","t","e","c","t","u","r","e">>, <<"s","t","a","c","k">>, <<"a","p","p","r","o","a","c","h">>>>)>>),
    ReI(<<Words(<<<<"r","e","t","i","e","n","s">>, <<"s","o","u","v","i","e","n","s","-","t","o","i">>, <<"n","'","o","u","b","l","i","e"," ","p","a","s">>, <<"r","a","p","p","e","l","l","e","-","t","o","i">>>>)>>),
    ReI(<<Words(<<<<"j","e"," ","p","r","e_acute","f","e_grave","r","e">>, <<"j","'","a","i","m","e">>, <<"j","e"," ","d","e_acute","t","e","s","t","e">>, <<"j","e"," ","v","e","u","x">>, <<"j","e"," ","n","e"," ","v","e","u","x"," ","p","a","s">>>>)>>),
    ReI(<<Words(<<<<"o","n"," ","a"," ","d","e_acute","c","i","d","e_acute">>, <<"o","n"," ","u","t","i","l","i","s","e">>, <<"o","n"," ","c","h","o","i","s","i","t">>, <<"o","n"," ","a"," ","c","h","o","i","s","i">>>>)>>),
    ReI(<<Alt(<<<<Lit(<<"m","o","n">>)>> \o Plus("space") \o Plus("word") \o Plus("space")
                  \o <<Words(<<<<"e","s","t">>, <<"c","'","e","s","t">>>>)>>,
                <<Lit(<<"m","a">>)>> \o Plus("space") \o Plus("word") \o Plus("space")
                  \o <<Words(<<<<"e","s","t">>, <<"c","'","e","s","t">>>>)>>>>)>>),
    ReI(<<Alt(<<<<Lit(<<"t","o","u","j","o","u","r","s">>)>> \o Plus("space") \o <<Lit(<<"u","t","i","l","i","s","e","r">>)>>,
                <<Lit(<<"j","a","m","a","i","s">>)>> \o Plus("space") \o <<Lit(<<"u","t","i","l","i","s","e","r">>)>>>>)>>),
    ReI(<<Words(<<<<"h","a","b","i","t","e"," ","a_grave">>, <<"t","r","a","v","a","i","l","l","e"," ","c","h","e","z">>, <<"n","e_acute"," ","l","e">>, <<"n","e_acute","e"," ","l","e">>>>)>>)>>

SENSITIVE_PATTERNS ==
  <<ReI(<<Lit(<<"p","a","s","s","w","o","r","d">>)>>),
    ReI(<<Lit(<<"a","p","i">>), Opt(<<Cls("dot")>>), Lit(<<"k","e","y">>)>>),
    ReI(<<Lit(<<"s","e","c","r","e","t">>)>>),
    ReI(<<Lit(<<"t","o","k","e","n">>)>> \o Plus("space") \o <<Lit(<<"i","s">>)>>),
    ReI(<<WordB, Lit(<<"s","s","n">>), WordB>>),
    ReI(<<Lit(<<"c","r","e","d","i","t">>), Opt(<<Cls("dot")>>), Lit(<<"c","a","r","d">>)>>)>>

\* An emoji of U+1F300..U+1F9FF is written as the one character "emoji"; it
\* counts for two in text.length.
EmojiCount(s) == Cardinality({i \in 1..Len(s) : s[i] = "emoji"})

JsLength(s) == Len(s) + EmojiCount(s)

\* /^\*\*[^*]+\*\*\n-/
boldListRe == <<Lit(<<"*","*">>)>> \o Plus("notStar") \o <<Lit(<<"*","*","\n","-">>)>>

\* Mutant of shouldCapture: the sensitive patterns are not tested.
shouldCapture_NoSensitive(text) ==
  IF JsLength(text) < 10 \/ JsLength(text) > 500 THEN FALSE
  ELSE IF Includes(text, <<"<","r","e","l","e","v","a","n","t","-","m","e","m","o","r","i","e","s",">">>) THEN FALSE
  ELSE IF StartsWith(text, <<"<">>) /\ Includes(text, <<"<","/">>) THEN FALSE
  ELSE IF Rx(boldListRe, text, 1, NoGroups, FALSE) # NoMatch THEN FALSE
  ELSE IF EmojiCount(text) > 3 THEN FALSE
  ELSE SomeTest(MEMORY_TRIGGERS, text)

shouldCapture(text) ==
  IF JsLength(text) < 10 \/ JsLength(text) > 500 THEN FALSE
  ELSE IF Includes(text, <<"<","r","e","l","e","v","a","n","t","-","m","e","m","o","r","i","e","s",">">>) THEN FALSE
  ELSE IF StartsWith(text, <<"<">>) /\ Includes(text, <<"<","/">>) THEN FALSE
  ELSE IF Rx(boldListRe, text, 1, NoGroups, FALSE) # NoMatch THEN FALSE
  ELSE IF EmojiCount(text) > 3 THEN FALSE
  ELSE IF SomeTest(SENSITIVE_PATTERNS, text) THEN FALSE
  ELSE SomeTest(MEMORY_TRIGGERS, text)

decisionWords ==
  ReI(<<Alt(<<<<Words(<<<<"d","e","c","i","d","e","d">>, <<"c","h","o","s","e">>, <<"w","e","n","t"," ","w","i","t","h">>, <<"s","e","l","e","c","t","e","d">>, <<"a","l","w","a","y","s"," ","u","s","e">>, <<"n","e","v","e","r"," ","u","s","e">>>>)>>,
              <<Lit(<<"o","v","e","r">>), Star("dot"), Lit(<<"b","e","c","a","u","s","e">>)>>,
              <<Lit(<<"i","n","s","t","e","a","d"," ","o","f">>), Star("dot"), Lit(<<"s","i","n","c","e">>)>>,
              <<Words(<<<<"r","o","z","h","o","d","l","i">>, <<"w","i","l","l"," ","u","s","e">>, <<"b","u","d","e","m","e">>, <<"o","n"," ","a"," ","d","e_acute","c","i","d","e_acute">>, <<"o","n"," ","a"," ","c","h","o","i","s","i">>,
                        <<"o","n"," ","u","t","i","l","i","s","e">>, <<"t","o","u","j","o","u","r","s"," ","u","t","i","l","i","s","e","r">>, <<"j","a","m","a","i","s"," ","u","t","i","l","i","s","e","r">>>>)>>>>)>>)

preferenceWords ==
  ReI(<<Words(<<<<"p","r","e","f","e","r">>, <<"r","a","d","s_caron","i">>, <<"l","i","k","e">>, <<"l","o","v","e">>, <<"h","a","t","e">>, <<"w","a","n","t">>, <<"j","e"," ","p","r","e_acute","f","e_grave","r","e">>,
                <<"j","'","a","i","m","e">>, <<"j","e"," ","d","e_acute","t","e","s","t","e">>, <<"j","e"," ","v","e","u","x">>>>)>>)

entityWords ==
  ReI(<<Alt(<<<<Lit(<<"+">>)>> \o TenDigits,
              <<Lit(<<"@">>)>> \o Plus("wordDotDash") \o <<Lit(<<".">>)>> \o Plus("word"),
              <<Words(<<<<"i","s"," ","c","a","l","l","e","d">>, <<"j","m","e","n","u","j","e"," ","s","e">>, <<"s","'","a","p","p","e","l","l","e">>>>)>>>>)>>)

factWords ==
  ReI(<<Alt(<<<<Words(<<<<"b","o","r","n">>, <<"b","i","r","t","h","d","a","y">>, <<"l","i","v","e","s">>, <<"w","o","r","k","s">>>>)>>,
              <<Words(<<<<"i","s">>, <<"a","r","e">>, <<"h","a","s">>, <<"h","a","v","e">>>>), Cls("space")>>,
              <<Words(<<<<"h","a","b","i","t","e"," ","a_grave">>, <<"t","r","a","v","a","i","l","l","e"," ","c","h","e","z">>>>)>>,
              <<Lit(<<"n">>), Lit(<<"e_acute">>), Opt(<<Lit(<<"e">>)>>), Lit(<<" ","l","e">>)>>>>)>>)

detectCategory(text) ==
  LET lower == ToLowerCase(text)
  IN IF Test(decisionWords, lower) THEN <<"d","e","c","i","s","i","o","n">>
     ELSE IF Test(preferenceWords, lower) THEN <<"p","r","e","f","e","r","e","n","c","e">>
     ELSE IF Test(entityWords, lower) THEN <<"e","n","t","i","t","y">>
     ELSE IF Test(factWords, lower) THEN <<"f","a","c","t">>
     ELSE <<"o","t","h","e","r">>

(***************************************************************************)
(* The statements callers store                                            *)
(***************************************************************************)
Importance07 == Rat(7, 10)
Importance09 == Rat(9, 10)

Entry(text, category, importance, entity, key, value, source) ==
  [text |-> text, category |-> category, importance |-> importance,
   entity |-> entity, key |-> key, value |-> value, source |-> source,
   decayClass |-> NoDecayClass, expiresAt |-> UNDEFT,
   confidence |-> UndefConf, searchTags |-> UNDEF]

\* The statements callers store, with their structured fields.
FredVim ==
  Entry(<<"F","r","e","d"," ","u","s","e","s"," ","V","i","m">>, <<"f","a","c","t">>, Importance07, <<"F","r","e","d">>, <<"e","d","i","t","o","r">>, <<"V","i","m">>, "conversation")
FredCursor ==
  Entry(<<"f","r","e","d"," ","u","s","e","s"," ","C","u","r","s","o","r">>, <<"p","r","e","f","e","r","e","n","c","e">>, Importance09, <<"f","r","e","d">>, <<"E","d","i","t","o","r">>, <<"C","u","r","s","o","r">>, "markdown")
DebugNow ==
  Entry(<<"f","i","x"," ","a","u","t","h"," ","r","i","g","h","t"," ","n","o","w">>, <<"o","t","h","e","r">>, Importance07, NULL, NULL, NULL, "conversation")
AlwaysTabs ==
  Entry(<<"a","l","w","a","y","s"," ","u","s","e"," ","t","a","b","s">>, <<"d","e","c","i","s","i","o","n">>, Importance07, NULL, NULL, NULL, "conversation")
Port3000 ==
  Entry(<<"A","P","I"," ","p","o","r","t"," ","3","0","0","0">>, <<"f","a","c","t">>, Importance07, NULL, NULL, NULL, "benchmark")
Port8080 ==
  Entry(<<"A","P","I"," ","p","o","r","t"," ","8","0","8","0">>, <<"f","a","c","t">>, Importance07, NULL, NULL, NULL, "benchmark")
ProjectGoal ==
  Entry(<<"s","h","i","p"," ","t","h","e"," ","A","P","I">>, <<"f","a","c","t">>, Importance07, <<"p","r","o","j","e","c","t">>, <<"g","o","a","l">>, <<"A","P","I">>, "conversation")
EcoleNice ==
  Entry(<<"E_acute","c","o","l","e"," ","i","n"," ","N","i","c","e">>, <<"f","a","c","t">>, Importance07, <<"E_acute","c","o","l","e">>, <<"c","i","t","y">>, <<"N","i","c","e">>, "conversation")
EcoleLyon ==
  Entry(<<"e_acute","c","o","l","e"," ","i","n"," ","L","y","o","n">>, <<"f","a","c","t">>, Importance07, <<"e_acute","c","o","l","e">>, <<"C","i","t","y">>, <<"L","y","o","n">>, "conversation")
FredNoKey ==
  Entry(<<"F","r","e","d">>, <<"e","n","t","i","t","y">>, Importance07, <<"F","r","e","d">>, <<>>, NULL, "conversation")

(***************************************************************************)
(* memory_store: the parameters of the tool and the entry it stores        *)
(***************************************************************************)
Params(text, category, entity, key, value) ==
  [text |-> text, importance |-> UndefConf, category |-> category,
   entity |-> entity, key |-> key, value |-> value, decayClass |-> NoDecayClass]

\* a || b on strings
OrElse(a, b) == IF Truthy(a) THEN a ELSE b

\* The entry memory_store passes to factsDb.store.
MemoryStoreEntry(params) ==
  LET category == IF params.category = UNDEF THEN <<"o","t","h","e","r">> ELSE params.category
      importance == IF params.importance = UndefConf THEN Importance07 ELSE params.importance
      extracted == extractStructuredFields(params.text, category)
  IN [Entry(params.text, category, importance,
            OrElse(params.entity, extracted.entity),
            OrElse(params.key, extracted.key),
            OrElse(params.value, extracted.value),
            "conversation")
      EXCEPT !.decayClass = params.decayClass]

\* What the agent asks memory_store to remember.
PreferTabs == Params(<<"I"," ","p","r","e","f","e","r"," ","t","a","b","s">>, UNDEF, UNDEF, UNDEF, UNDEF)
FixAuth == Params(<<"f","i","x"," ","a","u","t","h"," ","r","i","g","h","t"," ","n","o","w">>, UNDEF, UNDEF, UNDEF, UNDEF)
FredsEditor == Params(<<"F","r","e","d","'","s"," ","e","d","i","t","o","r"," ","i","s"," ","E","m","a","c","s">>, <<"f","a","c","t">>, UNDEF, UNDEF, UNDEF)
FredUsesVim == Params(<<"F","r","e","d"," ","u","s","e","s"," ","V","i","m">>, <<"f","a","c","t">>, <<"F","r","e","d">>, <<"e","d","i","t","o","r">>, <<"V","i","m">>)

MemoryStoreInputs == {PreferTabs, FixAuth, FredsEditor, FredUsesVim}

MemoryStoreMemo == [p \in MemoryStoreInputs |-> MemoryStoreEntry(p)]

(***************************************************************************)
(* Checkpoint blobs: Date.prototype.toISOString, JSON.stringify/parse      *)
(***************************************************************************)
Pad2(n) == IF n < 10 THEN <<"0">> \o DecimalOf(n) ELSE DecimalOf(n)

Pad4(n) ==
  IF n < 10 THEN <<"0","0","0">> \o DecimalOf(n)
  ELSE IF n < 100 THEN <<"0","0">> \o DecimalOf(n)
  ELSE IF n < 1000 THEN <<"0">> \o DecimalOf(n)
  ELSE DecimalOf(n)

\* The proleptic Gregorian date of a day number (days since 1970-01-01).
CivilFromDays(days) ==
  LET z == days + 719468
      era == z \div 146097
      doe == z - era * 146097
      yoe == (doe - doe \div 1460 + doe \div 36524 - doe \div 146096) \div 365
      doy == doe - (365 * yoe + yoe \div 4 - yoe \div 100)
      mp == (5 * doy + 2) \div 153
      d == doy - (153 * mp + 2) \div 5 + 1
      m == IF mp < 10 THEN mp + 3 ELSE mp - 9
      y == yoe + era * 400 + (IF m <= 2 THEN 1 ELSE 0)
  IN [y |-> y, m |-> m, d |-> d]

\* new Date().toISOString() at a whole epoch second.
ToISOString(sec) ==
  LET date == CivilFromDays(sec \div DAY)
      rest == sec % DAY
  IN Pad4(date.y) \o <<"-">> \o Pad2(date.m) \o <<"-">> \o Pad2(date.d) \o <<"T">>
     \o Pad2(rest \div HOUR) \o <<":">> \o Pad2((rest % HOUR) \div 60) \o <<":">>
     \o Pad2(rest % 60) \o <<".","0","0","0","Z">>

\* JSON string literal: quotes and backslashes are escaped.
RECURSIVE JsonEscape(_)
JsonEscape(s) ==
  IF s = <<>> THEN <<>>
  ELSE (IF Head(s) \in {"\"", "\\"} THEN <<"\\", Head(s)>> ELSE <<Head(s)>>)
       \o JsonEscape(Tail(s))

JsonString(s) == <<"\"">> \o JsonEscape(s) \o <<"\"">>

JsonArray(ss) ==
  <<"[">> \o Join([i \in 1..Len(ss) |-> JsonString(ss[i])], <<",">>) \o <<"]">>

\* workingFiles when the caller leaves it out.
NoFiles == <<UNDEF>>

JsonMember(name, json) == JsonString(name) \o <<":">> \o json

\* JSON.stringify({...context, savedAt}): undefined members are left out.
JsonStringify(context, savedAt) ==
  <<"{">>
  \o Join(<<JsonMember(<<"i","n","t","e","n","t">>, JsonString(context.intent)),
            JsonMember(<<"s","t","a","t","e">>, JsonString(context.state))>>
          \o (IF context.expectedOutcome = UNDEF THEN <<>>
              ELSE <<JsonMember(<<"e","x","p","e","c","t","e","d","O","u","t","c","o","m","e">>, JsonString(context.expectedOutcome))>>)
          \o (IF context.workingFiles = NoFiles THEN <<>>
              ELSE <<JsonMember(<<"w","o","r","k","i","n","g","F","i","l","e","s">>, JsonArray(context.workingFiles))>>)
          \o <<JsonMember(<<"s","a","v","e","d","A","t">>, JsonString(savedAt))>>,
          <<",">>)
  \o <<"}">>

\* JSON.parse, for the grammar the blobs use: an object whose members are
\* strings or arrays of strings, without insignificant white space.  A
\* parse yields [ok, val, next]; ok = FALSE is the SyntaxError.
JsonFail == [ok |-> FALSE, val |-> <<>>, next |-> 0]

RECURSIVE JsonParseChars(_, _, _)
JsonParseChars(s, i, acc) ==
  IF i > Len(s) THEN JsonFail
  ELSE IF s[i] = "\"" THEN [ok |-> TRUE, val |-> acc, next |-> i + 1]
  ELSE IF s[i] = "\\"
       THEN IF i + 1 <= Len(s) /\ s[i + 1] \in {"\"", "\\"}
            THEN JsonParseChars(s, i + 2, Append(acc, s[i + 1]))
            ELSE JsonFail
  ELSE JsonParseChars(s, i + 1, Append(acc, s[i]))

JsonParseString(s, i) ==
  IF i <= Len(s) /\ s[i] = "\"" THEN JsonParseChars(s, i + 1, <<>>) ELSE JsonFail

RECURSIVE JsonParseElements(_, _, _)
JsonParseElements(s, i, acc) ==
  LET e == JsonParseString(s, i)
  IN IF ~e.ok \/ e.next > Len(s) THEN JsonFail
     ELSE IF s[e.next] = "]" THEN [ok |-> TRUE, val |-> Append(acc, e.val), next |-> e.next + 1]
     ELSE IF s[e.next] = "," THEN JsonParseElements(s, e.next + 1, Append(acc, e.val))
     ELSE JsonFail

JsonParseValue(s, i) ==
  IF i > Len(s) THEN JsonFail
  ELSE IF s[i] = "\"" THEN JsonParseString(s, i)
  ELSE IF s[i] = "["
       THEN IF i + 1 <= Len(s) /\ s[i + 1] = "]"
            THEN [ok |-> TRUE, val |-> <<>>, next |-> i + 2]
            ELSE JsonParseElements(s, i + 1, <<>>)
  ELSE JsonFail

\* Members in the order read; a later member of the same name wins.
RECURSIVE JsonParseMembers(_, _, _)
JsonParseMembers(s, i, acc) ==
  LET k == JsonParseString(s, i)
  IN IF ~k.ok \/ k.next > Len(s) \/ s[k.next] # ":" THEN JsonFail
     ELSE LET v == JsonParseValue(s, k.next + 1)
              members == SelectSeq(acc, LAMBDA m : m[1] # k.val) \o <<<<k.val, v.val>>>>
          IN IF ~v.ok \/ v.next > Len(s) THEN JsonFail
             ELSE IF s[v.next] = "}" THEN [ok |-> TRUE, val |-> members, next |-> v.next + 1]
             ELSE IF s[v.next] = "," THEN JsonParseMembers(s, v.next + 1, members)
             ELSE JsonFail

JsonParse(s) ==
  IF Len(s) < 2 \/ s[1] # "{" THEN JsonFail
  ELSE LET r == IF s[2] = "}" THEN [ok |-> TRUE, val |-> <<>>, next |-> 3]
                ELSE JsonParseMembers(s, 2, <<>>)
       IN IF r.ok /\ r.next = Len(s) + 1 THEN r ELSE JsonFail

\* The contexts checkpoints are saved with.
Context(intent, state, expectedOutcome, workingFiles) ==
  [intent |-> intent, state |-> state, expectedOutcome |-> expectedOutcome,
   workingFiles |-> workingFiles]

Contexts ==
  {Context(<<"d","e","p","l","o","y">>, <<"b","u","i","l","d","i","n","g">>, UNDEF, NoFiles),
   Context(<<"f","i","x"," ","\"","a","u","t","h","\"">>, <<"t","e","s","t","s"," ","r","e","d">>, <<"g","r","e","e","n">>, <<<<"a",".","t","s">>>>)}

\* The record saveCheckpoint hands to store().
CheckpointEntry(context, nowSec) ==
  [Entry(JsonStringify(context, ToISOString(nowSec)), <<"o","t","h","e","r">>, Importance09,
         <<"s","y","s","t","e","m">>, <<"c","h","e","c","k","p","o","i","n","t",":">> \o DecimalOf(nowSec),
         SubSeq(context.intent, 1, IF Len(context.intent) < 100 THEN Len(context.intent) ELSE 100),
         "checkpoint")
   EXCEPT !.decayClass = "checkpoint"]

\* The values the clock takes within MaxTicks advances.
RECURSIVE ClockValues(_)
ClockValues(k) ==
  IF k = 0 THEN {T0}
  ELSE ClockValues(k - 1) \cup {t + d : t \in ClockValues(k - 1), d \in ClockSteps}

\* The statements of the model, as (entity, key, value, text).
Corpus ==
  {<<e.entity, e.key, e.value, e.text>> :
     e \in {FredVim, FredCursor, DebugNow, AlwaysTabs, Port3000, Port8080,
            ProjectGoal, FredNoKey, EcoleNice, EcoleLyon}
           \cup {CheckpointEntry(c, t) : c \in Contexts, t \in ClockValues(MaxTicks)}}

\* classifyDecay and generateSearchTags are pure: their values on the corpus
\* are computed once.
ClassifyMemo == [c \in Corpus |-> classifyDecay(c[1], c[2], c[3], c[4])]

SearchTagsMemo == [c \in Corpus |-> generateSearchTags(c[4], c[1], c[2], c[3])]

ClassifyOf(entity, key, value, text) ==
  IF <<entity, key, value, text>> \in Corpus
  THEN ClassifyMemo[<<entity, key, value, text>>]
  ELSE classifyDecay(entity, key, value, text)

SearchTagsOf(text, entity, key, value) ==
  IF <<entity, key, value, text>> \in Corpus
  THEN SearchTagsMemo[<<entity, key, value, text>>]
  ELSE generateSearchTags(text, entity, key, value)

(***************************************************************************)
(* FactsDB.store                                                           *)
(***************************************************************************)
\* const decayClass = entry.decayClass || classifyDecay(...)
StoreDecayClass(entry) ==
  IF entry.decayClass # NoDecayClass /\ entry.decayClass # ""
  THEN entry.decayClass
  ELSE ClassifyOf(entry.entity, entry.key, entry.value, entry.text)

\* const expiresAt = entry.expiresAt !== undefined ? entry.expiresAt : calculateExpiry(...)
StoreExpiresAt(entry, nowSec) ==
  IF entry.expiresAt # UNDEFT
  THEN entry.expiresAt
  ELSE calculateExpiry(StoreDecayClass(entry), nowSec)

\* const confidence = entry.confidence ?? 1.0
StoreConfidence(entry) ==
  IF entry.confidence = UndefConf THEN ROne ELSE entry.confidence

\* const searchTags = entry.searchTags || generateSearchTags(...)
StoreSearchTags(entry) ==
  IF Truthy(entry.searchTags)
  THEN entry.searchTags
  ELSE SearchTagsOf(entry.text, entry.entity, entry.key, entry.value)

\* if (entry.entity && entry.key) SELECT id FROM facts WHERE entity = ?
\* COLLATE NOCASE AND key = ? COLLATE NOCASE
StoreExisting(rows, entry) ==
  IF Truthy(entry.entity) /\ Truthy(entry.key)
  THEN {r \in rows : EqNocase(r.entity, entry.entity) /\ EqNocase(r.key, entry.key)}
  ELSE {}

\* The UPDATE of the upsert branch: every column but id, entity and key.
StoreUpdated(old, entry, nowSec) ==
  [old EXCEPT
     !.text = entry.text,
     !.value = entry.value,
     !.importance = entry.importance,
     !.category = entry.category,
     !.source = entry.source,
     !.created_at = nowSec,
     !.decay_class = StoreDecayClass(entry),
     !.expires_at = StoreExpiresAt(entry, nowSec),
     !.last_confirmed_at = nowSec,
     !.confidence = StoreConfidence(entry),
     !.search_tags = StoreSearchTags(entry)]

\* The row of the INSERT branch.
StoreInserted(rowid, id, entry, nowSec) ==
  [rowid |-> rowid,
   id |-> id,
   text |-> entry.text,
   category |-> entry.category,
   importance |-> entry.importance,
   entity |-> entry.entity,
   key |-> entry.key,
   value |-> entry.value,
   source |-> entry.source,
   created_at |-> nowSec,
   decay_class |-> StoreDecayClass(entry),
   expires_at |-> StoreExpiresAt(entry, nowSec),
   last_confirmed_at |-> nowSec,
   confidence |-> StoreConfidence(entry),
   search_tags |-> StoreSearchTags(entry)]

\* The MemoryEntry store() returns.
StoreReturned(id, entry, nowSec) ==
  [id |-> id,
   createdAt |-> nowSec,
   decayClass |-> StoreDecayClass(entry),
   expiresAt |-> StoreExpiresAt(entry, nowSec),
   lastConfirmedAt |-> nowSec,
   confidence |-> StoreConfidence(entry)]

\* randomUUID(): a UUID never handed out before.
FreshUuid == uuids + 1

\* FactsDB.store as a step: the upsert branch, the insert branch, or the
\* insert rejected by the unique index (SQLITE_CONSTRAINT is thrown).
DoStore(entry, op) ==
  LET existing == StoreExisting(facts, entry)
  IN IF existing # {}
     THEN LET old == CHOOSE r \in existing : TRUE
          IN /\ UpdateRows({old}, LAMBDA r : StoreUpdated(r, entry, now))
             /\ uuids' = uuids
             /\ ret' = [op |-> op, arg |-> entry, threw |-> FALSE,
                        val |-> StoreReturned(old.id, entry, now)]
     ELSE IF UniqueConflict(facts, entry.entity, entry.key)
     THEN /\ UNCHANGED <<facts, facts_fts>>
          /\ uuids' = FreshUuid
          /\ ret' = [op |-> op, arg |-> entry, threw |-> TRUE, val |-> <<>>]
     ELSE /\ InsertRow(StoreInserted(NextRowid(facts), FreshUuid, entry, now))
          /\ uuids' = FreshUuid
          /\ ret' = [op |-> op, arg |-> entry, threw |-> FALSE,
                     val |-> StoreReturned(FreshUuid, entry, now)]

(***************************************************************************)
(* Inputs                                                                  *)
(***************************************************************************)
\* Entries that leave decayClass, expiresAt and confidence to store(), as
\* the tools, auto-capture and the markdown scan do.
DerivedEntries ==
  {FredVim, FredCursor, DebugNow, AlwaysTabs, ProjectGoal, FredNoKey,
   EcoleNice, EcoleLyon}

\* Entries that supply expiresAt themselves (as the test-suite does).
ExplicitExpiryEntries(nowSec) ==
  {[Port8080 EXCEPT !.decayClass = "session", !.expiresAt = nowSec - HOUR],
   [DebugNow EXCEPT !.decayClass = "session", !.expiresAt = nowSec + DAY + HOUR],
   [FredVim EXCEPT !.expiresAt = NULLT],
   [AlwaysTabs EXCEPT !.decayClass = "permanent", !.expiresAt = nowSec - HOUR],
   [ProjectGoal EXCEPT !.decayClass = "active", !.expiresAt = nowSec + 14 * DAY,
                       !.confidence = Rat(1, 2), !.searchTags = <<"r","o","a","d","m","a","p">>]}

\* Entries that supply a confidence outside the documented range.
ExplicitConfidenceEntries ==
  {[FredCursor EXCEPT !.confidence = RZero],
   [FredVim EXCEPT !.confidence = Rat(2, 1)]}

ExplicitEntries(nowSec) ==
  {FredVim, AlwaysTabs} \cup ExplicitExpiryEntries(nowSec) \cup ExplicitConfidenceEntries

(***************************************************************************)
(* Query compiler of FactsDB.search and the FTS5 index                     *)
(***************************************************************************)

STOP_WORDS == {
  <<"t","h","e">>, <<"b","e">>, <<"t","o">>, <<"o","f">>, <<"a","n","d">>,
  <<"i","n">>, <<"t","h","a","t">>, <<"h","a","v","e">>, <<"i","t">>,
  <<"f","o","r">>, <<"n","o","t">>, <<"o","n">>, <<"w","i","t","h">>,
  <<"h","e">>, <<"a","s">>, <<"y","o","u">>, <<"d","o">>, <<"a","t">>,
  <<"t","h","i","s">>, <<"b","u","t">>, <<"h","i","s">>, <<"b","y">>,
  <<"f","r","o","m">>, <<"t","h","e","y">>, <<"w","e">>, <<"s","a","y">>,
  <<"h","e","r">>, <<"s","h","e">>, <<"o","r">>, <<"a","n">>,
  <<"w","i","l","l">>, <<"m","y">>, <<"o","n","e">>, <<"a","l","l">>,
  <<"w","o","u","l","d">>, <<"t","h","e","r","e">>, <<"t","h","e","i","r">>,
  <<"w","h","a","t">>, <<"s","o">>, <<"u","p">>, <<"o","u","t">>,
  <<"i","f">>, <<"a","b","o","u","t">>, <<"w","h","o">>, <<"g","e","t">>,
  <<"w","h","i","c","h">>, <<"g","o">>, <<"m","e">>, <<"w","h","e","n">>,
  <<"m","a","k","e">>, <<"c","a","n">>, <<"n","o">>, <<"j","u","s","t">>,
  <<"h","i","m">>, <<"k","n","o","w">>, <<"t","a","k","e">>, <<"h","o","w">>,
  <<"c","o","u","l","d">>, <<"t","h","e","m">>, <<"s","e","e">>,
  <<"t","h","a","n">>, <<"n","o","w">>, <<"c","o","m","e">>, <<"i","t","s">>,
  <<"o","v","e","r">>, <<"a","l","s","o">>, <<"a","f","t","e","r">>,
  <<"d","i","d">>, <<"s","h","o","u","l","d">>, <<"a","n","y">>,
  <<"w","h","e","r","e">>, <<"t","h","e","n">>, <<"h","e","r","e">>,
  <<"b","e","e","n">>, <<"h","a","s">>, <<"h","a","d">>, <<"w","a","s">>,
  <<"w","e","r","e">>, <<"a","r","e">>, <<"i","s">>, <<"a","m">>,
  <<"d","o","e","s">>, <<"y","e","s">>, <<"y","e","a","h">>, <<"n","o">>,
  <<"o","k">>, <<"o","k","a","y">>, <<"s","u","r","e">>,
  <<"p","l","e","a","s","e">>, <<"t","h","a","n","k","s">>,
  <<"t","h","a","n","k">>, <<"h","e","l","l","o">>, <<"h","i">>,
  <<"h","e","y">>, <<"l","e">>, <<"l","a">>, <<"l","e","s">>, <<"d","e">>,
  <<"d","u">>, <<"d","e","s">>, <<"u","n">>, <<"u","n","e">>, <<"e","t">>,
  <<"e","n">>, <<"q","u","e">>, <<"q","u","i">>, <<"d","a","n","s">>,
  <<"c","e">>, <<"i","l">>, <<"n","e">>, <<"s","e">>, <<"p","a","s">>,
  <<"p","l","u","s">>, <<"p","a","r">>, <<"s","u","r">>, <<"e","s","t">>,
  <<"s","o","n","t">>, <<"a","u">>, <<"a","u","x">>, <<"o","u">>,
  <<"m","a","i","s">>, <<"s","o","n">>, <<"s","a">>, <<"s","e","s">>,
  <<"a","v","e","c">>, <<"p","o","u","r">>, <<"n","o","u","s">>,
  <<"v","o","u","s">>, <<"i","l","s">>, <<"e","l","l","e","s">>, <<"j","e">>,
  <<"t","u">>, <<"o","n">>, <<"e","l","l","e">>, <<"l","u","i">>,
  <<"l","e","u","r">>, <<"e_acute","t","e_acute">>, <<"e_circ","t","r","e">>,
  <<"a","v","o","i","r">>, <<"f","a","i","t">>, <<"c","o","m","m","e">>,
  <<"t","o","u","t">>, <<"b","i","e","n">>, <<"o","u","i">>, <<"n","o","n">>,
  <<"m","e","r","c","i">>, <<"b","o","n","j","o","u","r">>,
  <<"s","a","l","u","t">>
}

IsLatinAccent(c) == c = "e_acute" \/ c = "E_acute" \/ c = "e_circ"

\* [a-zA-Z0-9À-ɏ_-]
IsQueryChar(c) == IsWordChar(c) \/ IsLatinAccent(c) \/ c = "-"

\* The words of the query: quotes removed, split on whitespace, stripped to
\* the allowed alphabet, then one-letter words and stop words dropped.
QueryWords(query) ==
  LET unquoted == SelectSeq(query, LAMBDA c : c # "'" /\ c # "\"")
      pieces == SplitWs(unquoted, 1, <<>>, <<>>)
      stripped == [i \in 1..Len(pieces) |-> SelectSeq(pieces[i], IsQueryChar)]
  IN SelectSeq(stripped, LAMBDA w : Len(w) > 1 /\ ToLowerCase(w) \notin STOP_WORDS)

\* safeQuery, as its OR-ed terms: `w*` for words of 3 letters or more,
\* `"w"` for shorter ones.
CompileQuery(query) ==
  LET words == QueryWords(query)
  IN [i \in 1..Len(words) |-> [word |-> words[i], prefix |-> Len(words[i]) >= 3]]

\* --- SQLite FTS5 (tokenize='porter unicode61 remove_diacritics 2') --------
\* unicode61 folds case and strips diacritics; a token is a run of letters
\* and digits.
Unicode61Char(c) ==
  IF c = "e_acute" \/ c = "E_acute" \/ c = "e_circ" THEN "e" ELSE NocaseChar(c)

IsTokenChar(c) ==
  InSeq(c, UpperAscii) \/ InSeq(c, LowerAscii) \/ InSeq(c, Digits) \/ IsLatinAccent(c)

\* The tokens of a text: its maximal runs of token characters, folded.
Unicode61(s) ==
  {[k \in 1..(j - i + 1) |-> Unicode61Char(s[i + k - 1])] :
     <<i, j>> \in {p \in (1..Len(s)) \X (1..Len(s)) :
                    /\ p[1] <= p[2]
                    /\ \A k \in p[1]..p[2] : IsTokenChar(s[k])
                    /\ (p[1] = 1 \/ ~IsTokenChar(s[p[1] - 1]))
                    /\ (p[2] = Len(s) \/ ~IsTokenChar(s[p[2] + 1]))}}

\* The index terms of one column value (NULL indexes nothing).
Tokens(s) == IF s = NULL THEN {} ELSE Unicode61(s)

\* Column values and queries recur: their tokens are computed once.
CorpusStrings ==
  UNION {{c[1], c[2], c[3], c[4], SearchTagsMemo[c]} : c \in Corpus}
    \cup {<<"f","a","c","t">>, <<"p","r","e","f","e","r","e","n","c","e">>, <<"o","t","h","e","r">>, <<"d","e","c","i","s","i","o","n">>, <<"e","n","t","i","t","y">>, <<"r","o","a","d","m","a","p">>}

TokensMemo == [s \in CorpusStrings \ {NULL} |-> Tokens(s)]

\* A NULL column contributes no token.
TokensOf(s) ==
  IF s = NULL THEN {} ELSE IF s \in CorpusStrings THEN TokensMemo[s] ELSE Tokens(s)

\* The queries callers search for.
Queries == {<<"\"","f","r","e","d","\""," ","a","u","t","h">>, <<"t","h","e"," ","A","P","I">>, <<"i","s"," ","t","h","e"," ","a">>}

CompileQueryMemo == [q \in Queries |-> CompileQuery(q)]

CompileQueryOf(q) == IF q \in Queries THEN CompileQueryMemo[q] ELSE CompileQuery(q)

\* One OR-ed term against the terms of one column: `w*` matches a token it
\* is a prefix of, `"w"` a token it equals (both after unicode61 folding).
TermMatches(term, toks) ==
  LET w == [i \in 1..Len(term.word) |-> Unicode61Char(term.word[i])]
  IN \E tok \in toks : IF term.prefix THEN StartsWith(tok, w) ELSE tok = w

\* facts_fts MATCH @query, for one index entry.
FtsMatch(f, terms) ==
  \E i \in 1..Len(terms) :
    \E col \in {f.text, f.category, f.entity, f.key, f.value, f.search_tags} :
      TermMatches(terms[i], TokensOf(col))

\* Mutant of NotExpired: a record is still served in the second it expires.
NotExpired_AtDeadline(row, nowSec) == row.expires_at = NULLT \/ row.expires_at >= nowSec

\* (f.expires_at IS NULL OR f.expires_at > @now)
NotExpired(row, nowSec) == row.expires_at = NULLT \/ row.expires_at > nowSec

\* FROM facts f JOIN facts_fts fts ON f.rowid = fts.rowid WHERE facts_fts
\* MATCH @query [AND not expired]
SearchMatched(rows, fts, terms, nowSec, includeExpired) ==
  {r \in rows :
     /\ \E f \in fts : f.rowid = r.rowid /\ FtsMatch(f, terms)
     /\ (includeExpired \/ NotExpired(r, nowSec))}

\* The CASE expression selected AS freshness.
DECAY_WINDOW == 7 * 24 * 3600

SqlFreshness(row, nowSec) ==
  IF row.expires_at = NULLT THEN ROne
  ELSE IF row.expires_at <= nowSec THEN RZero
  ELSE RMin(ROne, RealDiv(row.expires_at - nowSec, DECAY_WINDOW))

\* bm25 ranks are negative reals that depend on the whole index; the model
\* lets the engine return any of these for a matching row.
RankValues == {Rat(-2, 1), Rat(-3, 2)}

\* All orders of a finite set, as sequences.
Orders(S) ==
  {s \in [1..Cardinality(S) -> S] : \A i, j \in 1..Cardinality(S) : i # j => s[i] # s[j]}

Min2(a, b) == IF a < b THEN a ELSE b

\* ORDER BY rank LIMIT @limit: every order of the matching rows that is
\* non-decreasing in rank (ties in any order), cut at sqlLimit rows.
SearchFetches(matched, nowSec, sqlLimit) ==
  {[i \in 1..Min2(sqlLimit, Cardinality(matched)) |->
      [row |-> o[i], rank |-> rk[o[i].rowid], freshness |-> SqlFreshness(o[i], nowSec)]] :
     <<rk, o>> \in {p \in [{r.rowid : r \in matched} -> RankValues] \X Orders(matched) :
                     \A i \in 1..(Cardinality(matched) - 1) :
                        RLe(p[1][p[2][i].rowid], p[1][p[2][i + 1].rowid])}}

RECURSIVE SeqMinR(_)
SeqMinR(s) == IF Len(s) = 1 THEN s[1] ELSE RMin(s[1], SeqMinR(Tail(s)))

RECURSIVE SeqMaxR(_)
SeqMaxR(s) == IF Len(s) = 1 THEN s[1] ELSE RMax(s[1], SeqMaxR(Tail(s)))

RDiv(x, y) == IF y.n < 0 THEN Rat((0 - x.n) * y.d, x.d * (0 - y.n)) ELSE Rat(x.n * y.d, x.d * y.n)

\* JS `x || 1.0` on a number: 0 is falsy.
OrOne(x) == IF x.n = 0 THEN ROne ELSE x

\* JS `x || null` / `x || 0` on the columns copied into a MemoryEntry.
StrOrNull(s) == IF Truthy(s) THEN s ELSE NULL
IntOrNull(x) == IF x = NULLT \/ x = 0 THEN NULLT ELSE x
IntOrZero(x) == IF x = NULLT THEN 0 ELSE x

\* const range = maxRank - minRank || 1
SearchRange(minRank, maxRank) == OrOne(RSub(maxRank, minRank))

\* rawBm25 = 1 - (rank - minRank) / range (always finite: range is not 0)
SearchBm25(rank, minRank, maxRank) ==
  RSub(ROne, RDiv(RSub(rank, minRank), SearchRange(minRank, maxRank)))

SearchFreshness(c) == OrOne(c.freshness)

SearchConfidence(c) == OrOne(c.row.confidence)

\* composite = bm25Score * 0.6 + freshness * 0.25 + confidence * 0.15
SearchComposite(c, minRank, maxRank) ==
  RAdd(RAdd(RMul(SearchBm25(c.rank, minRank, maxRank), Rat(60, 100)),
            RMul(SearchFreshness(c), Rat(25, 100))),
       RMul(SearchConfidence(c), Rat(15, 100)))

\* The MemoryEntry built from a row of facts.
RowEntry(row, confidence) ==
  [id |-> row.id, text |-> row.text, category |-> row.category,
   importance |-> row.importance, entity |-> StrOrNull(row.entity),
   key |-> StrOrNull(row.key), value |-> StrOrNull(row.value),
   source |-> row.source, createdAt |-> row.created_at,
   decayClass |-> IF row.decay_class = "" THEN "stable" ELSE row.decay_class,
   expiresAt |-> IntOrNull(row.expires_at),
   lastConfirmedAt |-> IntOrZero(row.last_confirmed_at),
   confidence |-> confidence]

SearchResultOf(c, minRank, maxRank) ==
  [entry |-> RowEntry(c.row, SearchConfidence(c)),
   score |-> SearchComposite(c, minRank, maxRank),
   backend |-> "sqlite"]

\* results.sort((a, b) => b.score - a.score): stable, by descending score.
RECURSIVE InsertByScore(_, _)
InsertByScore(sorted, r) ==
  IF sorted = <<>> THEN <<r>>
  ELSE IF RLt(Head(sorted).score, r.score)
       THEN <<r>> \o sorted
       ELSE <<Head(sorted)>> \o InsertByScore(Tail(sorted), r)

RECURSIVE SortByScore(_, _)
SortByScore(rs, acc) ==
  IF rs = <<>> THEN acc ELSE SortByScore(Tail(rs), InsertByScore(acc, Head(rs)))

\* results.slice(0, limit)
Slice(s, n) == SubSeq(s, 1, Min2(n, Len(s)))

\* Mutant of SearchTop: the results are cut to limit without being sorted.
SearchTop_Unsorted(fetched, limit) ==
  LET ranks == [i \in 1..Len(fetched) |-> fetched[i].rank]
      minRank == SeqMinR(ranks)
      maxRank == SeqMaxR(ranks)
      results == [i \in 1..Len(fetched) |-> SearchResultOf(fetched[i], minRank, maxRank)]
  IN Slice(results, limit)

SearchTop(fetched, limit) ==
  LET ranks == [i \in 1..Len(fetched) |-> fetched[i].rank]
      minRank == SeqMinR(ranks)
      maxRank == SeqMaxR(ranks)
      results == [i \in 1..Len(fetched) |-> SearchResultOf(fetched[i], minRank, maxRank)]
  IN Slice(SortByScore(results, <<>>), limit)

(***************************************************************************)
(* FactsDB.refreshAccessedFacts                                            *)
(***************************************************************************)
\* Mutant of RefreshSelected: expired records are refreshed as well.
RefreshSelected_Expired(rows, ids, nowSec) ==
  {r \in rows : r.id \in ids /\ r.decay_class \in {"stable", "active"}}

\* WHERE id = @id AND decay_class IN ('stable', 'active')
\*   AND (expires_at IS NULL OR expires_at > @now)
RefreshSelected(rows, ids, nowSec) ==
  {r \in rows : r.id \in ids /\ r.decay_class \in {"stable", "active"}
                /\ NotExpired(r, nowSec)}

\* Mutant of RefreshUpdated: the TTL is not added to the new expiry.
RefreshUpdated_NoTtl(row, nowSec) ==
  [row EXCEPT !.last_confirmed_at = nowSec, !.expires_at = nowSec]

\* SET last_confirmed_at = @now, expires_at = CASE decay_class ... END
RefreshUpdated(row, nowSec) ==
  [row EXCEPT
     !.last_confirmed_at = nowSec,
     !.expires_at = IF row.decay_class = "stable" THEN nowSec + TTL_DEFAULTS.stable
                    ELSE IF row.decay_class = "active" THEN nowSec + TTL_DEFAULTS.active
                    ELSE row.expires_at]

refreshAccessedFacts(ids) ==
  UpdateRows(RefreshSelected(facts, ids, now), LAMBDA r : RefreshUpdated(r, now))

SeqIds(results) == {results[i].entry.id : i \in 1..Len(results)}

(***************************************************************************)
(* FactsDB.search and FactsDB.lookup                                       *)
(***************************************************************************)
\* The limits search is called with.
Limits == {1, 2}

Search ==
  /\ Call
  /\ \E query \in Queries, limit \in Limits, includeExpired \in BOOLEAN :
       LET terms == CompileQueryOf(query)
           matched == IF terms = <<>> THEN {}
                      ELSE SearchMatched(facts, facts_fts, terms, now, includeExpired)
           call == [op |-> "search", query |-> query, limit |-> limit,
                    includeExpired |-> includeExpired]
       IN IF matched = {}
          THEN /\ ret' = call @@ [fetched |-> <<>>, val |-> <<>>]
               /\ UNCHANGED <<facts, facts_fts>>
          ELSE \E fetched \in SearchFetches(matched, now, limit * 2) :
                 LET topResults == SearchTop(fetched, limit)
                 IN /\ refreshAccessedFacts(SeqIds(topResults))
                    /\ ret' = call @@ [fetched |-> fetched, val |-> topResults]
  /\ UNCHANGED <<now, ticks, uuids>>

\* WHERE entity = ? COLLATE NOCASE [AND key = ? COLLATE NOCASE]
\*   AND (expires_at IS NULL OR expires_at > ?)
LookupSelected(rows, entity, key, nowSec) ==
  {r \in rows : /\ EqNocase(r.entity, entity)
                /\ (Truthy(key) => EqNocase(r.key, key))
                /\ NotExpired(r, nowSec)}

\* ORDER BY confidence DESC, created_at DESC
LookupBefore(a, b) ==
  \/ RLt(b.confidence, a.confidence)
  \/ a.confidence = b.confidence /\ a.created_at >= b.created_at

LookupOrders(sel) ==
  {o \in Orders(sel) : \A i \in 1..(Cardinality(sel) - 1) : LookupBefore(o[i], o[i + 1])}

LookupResultOf(row) ==
  [entry |-> RowEntry(row, OrOne(row.confidence)),
   score |-> OrOne(row.confidence),
   backend |-> "sqlite"]

\* The (entity, key?) pairs lookup is called with.
LookupInputs ==
  {<<<<"F","R","E","D">>, UNDEF>>, <<<<"f","r","e","d">>, <<"E","D","I","T","O","R">>>>, <<<<"s","y","s","t","e","m">>, UNDEF>>}

Lookup ==
  /\ Call
  /\ \E input \in LookupInputs :
       \E o \in LookupOrders(LookupSelected(facts, input[1], input[2], now)) :
         LET results == [i \in 1..Len(o) |-> LookupResultOf(o[i])]
         IN /\ IF results = <<>> THEN UNCHANGED <<facts, facts_fts>>
               ELSE refreshAccessedFacts(SeqIds(results))
            /\ ret' = [op |-> "lookup", entity |-> input[1], key |-> input[2],
                       val |-> results]
  /\ UNCHANGED <<now, ticks, uuids>>

(***************************************************************************)
(* FactsDB.delete, decayConfidence, confirmFact                            *)
(***************************************************************************)
\* The ids delete and confirmFact are called with: ids handed out or not,
\* and the id of a row of the old file.
IdInputs == {1, 2, 102}

Delete ==
  /\ Call
  /\ \E id \in IdInputs :
       LET sel == {r \in facts : r.id = id}
       IN /\ DeleteRows(sel)
          /\ ret' = [op |-> "delete", id |-> id, val |-> (sel # {})]
  /\ UNCHANGED <<now, ticks, uuids>>

\* Mutant of DecaySelected: expired records decay as well.
DecaySelected_Expired(rows, nowSec) ==
  {r \in rows : /\ r.expires_at # NULLT
                /\ r.last_confirmed_at # NULLT
                /\ r.expires_at - r.last_confirmed_at > 0}

\* WHERE expires_at IS NOT NULL AND expires_at > @now
\*   AND last_confirmed_at IS NOT NULL AND (expires_at - last_confirmed_at) > 0
DecaySelected(rows, nowSec) ==
  {r \in rows : /\ r.expires_at # NULLT
                /\ r.expires_at > nowSec
                /\ r.last_confirmed_at # NULLT
                /\ r.expires_at - r.last_confirmed_at > 0}

\* The floor below which confidence does not decay.
MinConfidence == Rat(5, 100)

\* Mutant of DecayedConfidence: no floor.
DecayedConfidence_NoFloor(row, nowSec) ==
  RSub(ROne, RealDiv(nowSec - row.last_confirmed_at,
                     row.expires_at - row.last_confirmed_at))

\* Mutant of DecayedConfidence: the share of the window that has elapsed.
DecayedConfidence_Elapsed(row, nowSec) ==
  RMax(MinConfidence,
       RealDiv(nowSec - row.last_confirmed_at,
               row.expires_at - row.last_confirmed_at))

\* MAX(0.05, 1.0 - (@now - last_confirmed_at) / (expires_at - last_confirmed_at))
DecayedConfidence(row, nowSec) ==
  RMax(MinConfidence,
       RSub(ROne, RealDiv(nowSec - row.last_confirmed_at,
                          row.expires_at - row.last_confirmed_at)))

DecayConfidence ==
  LET sel == DecaySelected(facts, now)
  IN /\ Call
     /\ UpdateRows(sel, LAMBDA r : [r EXCEPT !.confidence = DecayedConfidence(r, now)])
     /\ ret' = [op |-> "decayConfidence", val |-> Cardinality(sel)]
     /\ UNCHANGED <<now, ticks, uuids>>

\* Mutant of ConfirmUpdated: the new expiry is the stable TTL whatever the class.
ConfirmUpdated_StableTtl(row, nowSec) ==
  [row EXCEPT !.confidence = ROne,
              !.last_confirmed_at = nowSec,
              !.expires_at = nowSec + TTL_DEFAULTS.stable]

\* UPDATE facts SET confidence = 1.0, last_confirmed_at = ?, expires_at = ?
ConfirmUpdated(row, nowSec) ==
  [row EXCEPT !.confidence = ROne,
              !.last_confirmed_at = nowSec,
              !.expires_at = calculateExpiry(row.decay_class, nowSec)]

confirmFact(id) ==
  LET sel == {r \in facts : r.id = id}
  IN /\ UpdateRows(sel, LAMBDA r : ConfirmUpdated(r, now))
     /\ ret' = [op |-> "confirmFact", id |-> id, val |-> (sel # {})]

ConfirmFact ==
  /\ Call
  /\ \E id \in IdInputs : confirmFact(id)
  /\ UNCHANGED <<now, ticks, uuids>>

(***************************************************************************)
(* FactsDB.saveCheckpoint and restoreCheckpoint                            *)
(***************************************************************************)
\* this.store({text: JSON.stringify({...context, savedAt}), ...}).id
saveCheckpoint(context) == DoStore(CheckpointEntry(context, now), "saveCheckpoint")

SaveCheckpoint ==
  /\ Call
  /\ \E context \in Contexts : saveCheckpoint(context)
  /\ UNCHANGED <<now, ticks>>

\* key LIKE 'checkpoint:%' (LIKE folds ASCII case)
LikeCheckpoint(key) == key # NULL /\ StartsWith(Nocase(key), <<"c","h","e","c","k","p","o","i","n","t",":">>)

\* WHERE entity = 'system' AND key LIKE 'checkpoint:%'
\*   AND (expires_at IS NULL OR expires_at > ?)
RestoreSelected(rows, nowSec) ==
  {r \in rows : r.entity = <<"s","y","s","t","e","m">> /\ LikeCheckpoint(r.key) /\ NotExpired(r, nowSec)}

\* Mutant of RestoreLatest: ORDER BY created_at ASC.
RestoreLatest_Oldest(sel) == {r \in sel : \A s \in sel : r.created_at <= s.created_at}

\* ORDER BY created_at DESC LIMIT 1
RestoreLatest(sel) == {r \in sel : \A s \in sel : s.created_at <= r.created_at}

\* Mutant of RestoreResult: a blob that does not parse yields the bare id.
RestoreResult_NoCatch(row) ==
  LET parsed == JsonParse(row.text)
  IN [id |-> row.id, members |-> IF parsed.ok THEN parsed.val ELSE <<>>]

\* { id: row.id, ...JSON.parse(row.text) }, or null
RestoreResult(row) ==
  LET parsed == JsonParse(row.text)
  IN IF parsed.ok THEN [id |-> row.id, members |-> parsed.val] ELSE [id |-> NULLT]

\* The row restoreCheckpoint reads and what it returns (a read only).
restoreCheckpoint ==
  LET sel == RestoreSelected(facts, now)
  IN IF sel = {}
     THEN ret' = [op |-> "restoreCheckpoint", row |-> NULLT, val |-> [id |-> NULLT]]
     ELSE \E r \in RestoreLatest(sel) :
            ret' = [op |-> "restoreCheckpoint", row |-> r.id, val |-> RestoreResult(r)]

RestoreCheckpoint ==
  /\ Call
  /\ restoreCheckpoint
  /\ UNCHANGED <<now, ticks, facts, facts_fts, uuids>>

(***************************************************************************)
(* FactsDB.backfillDecayClasses                                            *)
(***************************************************************************)
\* WHERE decay_class = 'stable' OR (expires_at IS NULL AND decay_class != 'permanent')
BackfillSelected(rows) ==
  {r \in rows : r.decay_class = "stable"
                \/ (r.expires_at = NULLT /\ r.decay_class # "permanent")}

BackfillClass(row) == ClassifyOf(row.entity, row.key, row.value, row.text)

\* if (dc === row.decay_class && row.expires_at !== null) continue
BackfillChanged(rows) ==
  {r \in BackfillSelected(rows) :
     ~(BackfillClass(r) = r.decay_class /\ r.expires_at # NULLT)}

\* Mutant of BackfillUpdated: the class is rewritten, the expiry is not.
BackfillUpdated_ClassOnly(row, nowSec) ==
  [row EXCEPT !.decay_class = BackfillClass(row)]

BackfillUpdated(row, nowSec) ==
  [row EXCEPT !.decay_class = BackfillClass(row),
              !.expires_at = calculateExpiry(BackfillClass(row), nowSec)]

BackfillDecayClasses ==
  LET sel == BackfillChanged(facts)
  IN /\ Call
     /\ UpdateRows(sel, LAMBDA r : BackfillUpdated(r, now))
     /\ ret' = [op |-> "backfillDecayClasses",
                val |-> [dc \in DECAY_CLASSES |->
                           Cardinality({r \in sel : BackfillClass(r) = dc})]]
     /\ UNCHANGED <<now, ticks, uuids>>

(***************************************************************************)
(* FactsDB constructor: schema and migrations                              *)
(***************************************************************************)
\* DELETE FROM facts WHERE rowid NOT IN (SELECT MAX(rowid) ... GROUP BY
\* entity COLLATE NOCASE, key COLLATE NOCASE) AND entity IS NOT NULL AND key
\* IS NOT NULL
DedupeKept(rows) ==
  {r \in rows :
     \/ r.entity = NULL
     \/ r.key = NULL
     \/ \A s \in rows :
          EqNocase(s.entity, r.entity) /\ EqNocase(s.key, r.key) => s.rowid <= r.rowid}

\* ALTER TABLE facts ADD COLUMN decay_class ... DEFAULT 'stable', expires_at,
\* last_confirmed_at, confidence ... DEFAULT 1.0; then last_confirmed_at =
\* created_at.  (search_tags DEFAULT '' is added by migrateFtsTokenizer.)
migrateDecayColumns(old) ==
  {[rowid |-> r.rowid, id |-> r.id, text |-> r.text, category |-> r.category,
    importance |-> r.importance, entity |-> r.entity, key |-> r.key,
    value |-> r.value, source |-> r.source, created_at |-> r.created_at,
    decay_class |-> "stable", expires_at |-> NULLT,
    last_confirmed_at |-> r.created_at, confidence |-> ROne,
    search_tags |-> <<>>] : r \in old}

\* UPDATE facts SET expires_at = now + ttl WHERE decay_class = dc AND
\* expires_at IS NULL, for every class with a TTL.
migrateNullExpiry(rows, nowSec) ==
  {IF r.expires_at = NULLT /\ TTL_DEFAULTS[r.decay_class] # NULLT
   THEN [r EXCEPT !.expires_at = nowSec + TTL_DEFAULTS[r.decay_class]]
   ELSE r : r \in rows}

migrateUpsertIndex(rows) == DedupeKept(rows)

migrateNocaseIndex(rows) == DedupeKept(rows)

\* INSERT INTO facts_fts(facts_fts) VALUES('rebuild')
migrateFtsTokenizer(rows) == {FtsColumns(r) : r \in rows}

\* A database file written by the version before decay classes: rows with
\* second timestamps, no decay columns, and a pair of rows whose (entity,
\* key) differ in case only.
LegacyRow(rowid, id, e, createdAt) ==
  [rowid |-> rowid, id |-> id, text |-> e.text, category |-> e.category,
   importance |-> e.importance, entity |-> e.entity, key |-> e.key,
   value |-> e.value, source |-> e.source, created_at |-> createdAt]

LegacyFile ==
  {LegacyRow(1, 101, FredVim, T0 - DAY), LegacyRow(2, 102, FredCursor, T0 - HOUR)}

\* The constructor on a file of the old version.
OpenLegacy(old, nowSec) ==
  migrateNocaseIndex(migrateNullExpiry(migrateUpsertIndex(migrateDecayColumns(old)), nowSec))

\* The FTS index the constructor leaves on a file of the old version:
\* migrateFtsTokenizer drops and rebuilds it from the rows as they are after
\* migrateDecayColumns, and the triggers follow the DELETEs and UPDATEs of
\* the migrations that run after it.
OpenLegacyFts(old, nowSec) ==
  LET decayed == migrateDecayColumns(old)
      deduped == migrateUpsertIndex(decayed)
      expiring == migrateNullExpiry(deduped, nowSec)
      rebuilt == migrateFtsTokenizer(decayed)
      afterUpsertIndex == ApplyAd(rebuilt, decayed \ deduped)
      afterNullExpiry ==
        ApplyAu(afterUpsertIndex,
                {<<r, [r EXCEPT !.expires_at = nowSec + TTL_DEFAULTS[r.decay_class]]>> :
                   r \in {x \in deduped : x.expires_at = NULLT /\ TTL_DEFAULTS[x.decay_class] # NULLT}})
  IN ApplyAd(afterNullExpiry, expiring \ migrateNocaseIndex(expiring))

\* The constructor on a file this version wrote: only migrateNullExpiry
\* finds work to do.
Reopen ==
  /\ Call
  /\ facts' = migrateNullExpiry(facts, now)
  /\ facts_fts' = ApplyAu(facts_fts, {<<r, [r EXCEPT !.expires_at = now + TTL_DEFAULTS[r.decay_class]]>> :
                                         r \in {x \in facts : x.expires_at = NULLT /\ TTL_DEFAULTS[x.decay_class] # NULLT}})
  /\ ret' = [op |-> "open"]
  /\ UNCHANGED <<now, ticks, uuids>>

(***************************************************************************)
(* FactsDB.pruneExpired                                                    *)
(***************************************************************************)
\* Mutant of PruneSelected: the IS NOT NULL test is lost (NULL sorts first).
PruneSelected_NullExpired(rows, nowSec) == {r \in rows : r.expires_at < nowSec}

\* Mutant of PruneSelected: records are deleted in the second they expire.
PruneSelected_AtDeadline(rows, nowSec) ==
  {r \in rows : r.expires_at # NULLT /\ r.expires_at <= nowSec}

\* Mutant of PruneSelected: only the long-lived classes are pruned.
PruneSelected_LongLived(rows, nowSec) ==
  {r \in rows : r.expires_at # NULLT /\ r.expires_at < nowSec
                /\ r.decay_class \in {"stable", "active"}}

\* SELECT id FROM facts WHERE expires_at IS NOT NULL AND expires_at < ?
PruneSelected(rows, nowSec) ==
  {r \in rows : r.expires_at # NULLT /\ r.expires_at < nowSec}

PruneExpired ==
  LET sel == PruneSelected(facts, now)
  IN /\ Call
     /\ IF sel = {} THEN UNCHANGED <<facts, facts_fts>> ELSE DeleteRows(sel)
     /\ ret' = [op |-> "pruneExpired", count |-> Cardinality(sel),
                ids |-> {r.id : r \in sel}]
     /\ UNCHANGED <<now, ticks, uuids>>

(***************************************************************************)
(* FactsDB.hasDuplicate, FactsDB.count                                     *)
(***************************************************************************)
\* Mutant of hasDuplicate: only records with an entity are looked at.
hasDuplicate_StructuredOnly(rows, text) ==
  \E r \in rows : r.text = text /\ r.entity # NULL

\* SELECT id FROM facts WHERE text = ? LIMIT 1
hasDuplicate(rows, text) == \E r \in rows : r.text = text

\* SELECT COUNT(*) FROM facts
count(rows) == Cardinality(rows)

(***************************************************************************)
(* VectorDB                                                                *)
(***************************************************************************)
\* What vectorSearch(vector).limit(1) can say about the nearest row: an
\* empty table has none, a row embedded from the same text is at distance
\* 0 (score 1), and how near the rows of other texts are is up to the
\* embedding model.
VectorHasDuplicateResults(rows, text) ==
  IF rows = <<>> THEN {FALSE}
  ELSE IF \E i \in 1..Len(rows) : rows[i].text = text THEN {TRUE}
  ELSE BOOLEAN

\* table.delete(`id = '${id}'`)
VectorDeleted(rows, id) == SelectSeq(rows, LAMBDA r : r.id # id)

\* table.add([{ ...entry, id, createdAt: nowSec }])
VectorAdded(rows, id, params, nowSec) ==
  Append(rows, [id |-> id, text |-> params.text, createdAt |-> nowSec])

(***************************************************************************)
(* The tool memory_store, one step per synchronous segment                 *)
(***************************************************************************)
NoTask == [pc |-> "idle", params |-> <<>>, id |-> 0, action |-> "none"]

Finished(task, action) == [task EXCEPT !.pc = "done", !.action = action]

\* The tool is called: up to the first await. The duplicate test, the
\* extraction and factsDb.store run without yielding.
MemoryStore(t) ==
  /\ tasks[t].pc = "idle"
  /\ IF t = 1 THEN TRUE ELSE tasks[t - 1].pc # "idle"
  /\ \E params \in MemoryStoreInputs :
       IF hasDuplicate(facts, params.text)
       THEN /\ tasks' = [tasks EXCEPT ![t] = [pc |-> "done", params |-> params,
                                                id |-> 0, action |-> "duplicate"]]
            /\ ret' = [op |-> "hasDuplicate", arg |-> params.text, val |-> TRUE]
            /\ UNCHANGED <<facts, facts_fts, uuids>>
       ELSE /\ DoStore(MemoryStoreMemo[params], "store")
            /\ tasks' = [tasks EXCEPT ![t] =
                 IF ret'.threw
                 THEN [pc |-> "done", params |-> params, id |-> 0, action |-> "threw"]
                 ELSE [pc |-> "embed", params |-> params, id |-> ret'.val.id,
                       action |-> "none"]]
  /\ UNCHANGED <<now, ticks, calls, vectors>>

\* embeddings.embed(text) resolves.
Embedded(t) ==
  /\ tasks[t].pc = "embed"
  /\ tasks' = [tasks EXCEPT ![t].pc = "hasDuplicate"]
  /\ UNCHANGED <<now, ticks, facts, facts_fts, uuids, calls, ret, vectors>>

\* vectorDb.hasDuplicate(vector) resolves.
VectorHasDuplicate(t) ==
  /\ tasks[t].pc = "hasDuplicate"
  /\ \E dup \in VectorHasDuplicateResults(vectors, tasks[t].params.text) :
       tasks' = [tasks EXCEPT ![t] =
                   IF dup THEN Finished(tasks[t], "created")
                   ELSE [tasks[t] EXCEPT !.pc = "delete"]]
  /\ UNCHANGED <<now, ticks, facts, facts_fts, uuids, calls, ret, vectors>>

\* VectorDB.store: the row of the same id is deleted ...
VectorDelete(t) ==
  /\ tasks[t].pc = "delete"
  /\ vectors' = VectorDeleted(vectors, tasks[t].id)
  /\ tasks' = [tasks EXCEPT ![t].pc = "add"]
  /\ UNCHANGED <<now, ticks, facts, facts_fts, uuids, calls, ret>>

\* ... or the delete fails, which store() ignores ...
VectorDeleteFailed(t) ==
  /\ tasks[t].pc = "delete"
  /\ tasks' = [tasks EXCEPT ![t].pc = "add"]
  /\ UNCHANGED <<now, ticks, facts, facts_fts, uuids, calls, ret, vectors>>

\* ... and the new row is added; the tool returns action 'created'.
VectorAdd(t) ==
  /\ tasks[t].pc = "add"
  /\ vectors' = VectorAdded(vectors, tasks[t].id, tasks[t].params, now)
  /\ tasks' = [tasks EXCEPT ![t] = Finished(tasks[t], "created")]
  /\ UNCHANGED <<now, ticks, facts, facts_fts, uuids, calls, ret>>

\* embed, vectorDb.hasDuplicate or table.add rejects: the tool logs a
\* warning and returns action 'created' all the same.
VectorFailed(t) ==
  /\ tasks[t].pc \in {"embed", "hasDuplicate", "add"}
  /\ tasks' = [tasks EXCEPT ![t] = Finished(tasks[t], "created")]
  /\ UNCHANGED <<now, ticks, facts, facts_fts, uuids, calls, ret, vectors>>

\* The wall clock advances while tool calls are under way.
ClockAdvances ==
  /\ ticks < MaxTicks
  /\ \E d \in ClockSteps : now' = now + d
  /\ ticks' = ticks + 1
  /\ UNCHANGED <<facts, facts_fts, uuids, calls, ret, vectors, tasks>>

(***************************************************************************)
(* VectorDB.search                                                         *)
(***************************************************************************)
\* 1 / (1 + distance) for the distances the embedding model may put between
\* a query and a row.
VectorScores == {Rat(1, 4), Rat(1, 2), ROne}

\* The SearchResult built from a row of the vector table.
VectorResult(row, score) ==
  [entry |-> [id |-> row.id, text |-> row.text, entity |-> NULL, key |-> NULL,
              value |-> NULL, source |-> "conversation", createdAt |-> row.createdAt,
              decayClass |-> "stable", expiresAt |-> NULLT,
              lastConfirmedAt |-> row.createdAt, confidence |-> ROne],
   score |-> score, backend |-> "lancedb"]

\* vectorSearch(vector).limit(limit) then filter(score >= minScore): the
\* nearest rows first; which rows are near is up to the embedding model.
VectorSearchResults(rows, limit, minScore) ==
  LET k == Min2(limit, Len(rows))
  IN {SelectSeq([i \in 1..k |-> VectorResult(rows[o[i]], sc[i])],
                LAMBDA r : RLe(minScore, r.score)) :
        <<o, sc>> \in {p \in [1..k -> 1..Len(rows)] \X [1..k -> VectorScores] :
                        /\ \A i, j \in 1..k : i # j => p[1][i] # p[1][j]
                        /\ \A i \in 1..(k - 1) : RLe(p[2][i + 1], p[2][i])}}

(***************************************************************************)
(* mergeResults: the fuser of lexical and vector results                   *)
(***************************************************************************)
\* for (const r of sqliteResults) if (!seen.has(r.entry.id)) { seen.add;
\* merged.push(r) }
RECURSIVE MergeSqlite(_, _, _)
MergeSqlite(rs, seen, merged) ==
  IF rs = <<>> THEN merged
  ELSE IF Head(rs).entry.id \in seen
       THEN MergeSqlite(Tail(rs), seen, merged)
       ELSE MergeSqlite(Tail(rs), seen \cup {Head(rs).entry.id}, Append(merged, Head(rs)))

\* Mutant of IsDupe: a vector result is a duplicate by id only.
IsDupe_IdOnly(merged, r) ==
  \E i \in 1..Len(merged) : merged[i].entry.id = r.entry.id

\* merged.some(m => m.entry.id === r.entry.id ||
\*   m.entry.text.toLowerCase() === r.entry.text.toLowerCase())
IsDupe(merged, r) ==
  \E i \in 1..Len(merged) :
     \/ merged[i].entry.id = r.entry.id
     \/ ToLowerCase(merged[i].entry.text) = ToLowerCase(r.entry.text)

\* for (const r of lanceResults) if (!isDupe) merged.push(r)
RECURSIVE MergeLance(_, _)
MergeLance(rs, merged) ==
  IF rs = <<>> THEN merged
  ELSE MergeLance(Tail(rs), IF IsDupe(merged, Head(rs)) THEN merged
                            ELSE Append(merged, Head(rs)))

\* Mutant of MergeSort: a sort that is not stable (survivors of equal score
\* come out in reverse merge order).
MergeSort_Unstable(merged) ==
  LET rev == [i \in 1..Len(merged) |-> merged[Len(merged) + 1 - i]]
  IN SortByScore(rev, <<>>)

\* merged.sort((a, b) => b.score - a.score): stable since ES2019.
MergeSort(merged) == SortByScore(merged, <<>>)

mergeResults(sqliteResults, lanceResults, limit) ==
  Slice(MergeSort(MergeLance(lanceResults, MergeSqlite(sqliteResults, {}, <<>>))), limit)

\* The results the fuser is called with: two ids, two texts that differ in
\* case only and a third text, two scores.
MergeIds == {1, 2}
MergeTexts == {<<"F","r","e","d">>, <<"f","r","e","d">>, <<"V","i","m">>}
MergeScores == {Rat(3, 10), Rat(8, 10)}

MergeResultsOf(backend) ==
  {[entry |-> [id |-> id, text |-> text], score |-> score, backend |-> backend] :
     id \in MergeIds, text \in MergeTexts, score \in MergeScores}

MaxMergeLen == 2

MergeLists(backend) ==
  UNION {[1..n -> MergeResultsOf(backend)] : n \in 0..MaxMergeLen}

MergeLimits == {1, 2, 3}

\* One call of mergeResults.
MergeResults ==
  /\ Call
  /\ \E sqliteResults \in MergeLists("sqlite"), lanceResults \in MergeLists("lancedb"),
        limit \in MergeLimits :
       ret' = [op |-> "mergeResults", sqlite |-> sqliteResults, lance |-> lanceResults,
               limit |-> limit, val |-> mergeResults(sqliteResults, lanceResults, limit)]
  /\ UNCHANGED <<now, ticks, facts, facts_fts, uuids>>

(***************************************************************************)
(* The tool memory_recall and the hook before_agent_start                  *)
(***************************************************************************)
\* The rows after refreshAccessedFacts(ids).
Refreshed(rows, ids, nowSec) ==
  LET sel == RefreshSelected(rows, ids, nowSec)
  IN (rows \ sel) \cup {RefreshUpdated(r, nowSec) : r \in sel}

\* What factsDb.lookup(entity) can return on the rows, in each order ORDER
\* BY allows.
LookupResults(rows, entity, nowSec) ==
  {[i \in 1..Len(o) |-> LookupResultOf(o[i])] :
     o \in LookupOrders(LookupSelected(rows, entity, UNDEF, nowSec))}

\* What factsDb.search(query, limit) can return on the rows.
SearchResults(rows, fts, query, limit, nowSec) ==
  LET terms == CompileQueryOf(query)
      matched == IF terms = <<>> THEN {}
                 ELSE SearchMatched(rows, fts, terms, nowSec, FALSE)
  IN IF matched = {} THEN {<<>>}
     ELSE {SearchTop(fetched, limit) : fetched \in SearchFetches(matched, nowSec, limit * 2)}

RecallParams(query, limit, entity) == [query |-> query, limit |-> limit, entity |-> entity]

\* The calls of memory_recall: each query, with the default limit or a
\* limit of 1, with and without an entity.
MemoryRecallInputs ==
  {RecallParams(q, l, e) : q \in Queries, l \in {UNDEFT, 1}, e \in {UNDEF, <<"f","r","e","d">>}}

\* The prompts of before_agent_start: the queries and a prompt of fewer
\* than 5 characters.
Prompts == Queries \cup {<<"a","u","t","h">>}

\* A tool call or hook run that has started, at nowSec, and is at its first
\* await.
RecallTask(tool, params, sqlite, limit, minScore, mergeLimit, nowSec) ==
  [pc |-> "recallEmbed", params |-> params, id |-> 0, action |-> "none", at |-> nowSec,
   tool |-> tool, sqlite |-> sqlite, limit |-> limit, minScore |-> minScore,
   mergeLimit |-> mergeLimit, failed |-> FALSE, results |-> <<>>]

\* memory_recall.execute up to its first await: lookup(entity) if an entity
\* is given, then search(query, limit); both refresh what they return.
MemoryRecall(t) ==
  /\ tasks[t].pc = "idle"
  /\ IF t = 1 THEN TRUE ELSE tasks[t - 1].pc # "idle"
  /\ \E params \in MemoryRecallInputs :
       LET limit == IF params.limit = UNDEFT THEN 5 ELSE params.limit
       IN \E looked \in (IF Truthy(params.entity)
                         THEN LookupResults(facts, params.entity, now) ELSE {<<>>}) :
            LET rows == Refreshed(facts, SeqIds(looked), now)
            IN \E ftsResults \in SearchResults(rows, facts_fts, params.query, limit, now) :
                 /\ facts' = Refreshed(rows, SeqIds(ftsResults), now)
                 /\ tasks' = [tasks EXCEPT ![t] =
                      RecallTask("memory_recall", params, looked \o ftsResults, limit, Rat(3, 10), limit, now)]
  \* trigger facts_au re-indexes the same columns
  /\ UNCHANGED <<now, ticks, facts_fts, uuids, calls, ret, vectors>>

\* The hook before_agent_start up to its first await.
BeforeAgentStart(t) ==
  /\ tasks[t].pc = "idle"
  /\ IF t = 1 THEN TRUE ELSE tasks[t - 1].pc # "idle"
  /\ \E prompt \in Prompts :
       IF Len(prompt) < 5
       THEN /\ tasks' = [tasks EXCEPT ![t] =
                 [RecallTask("before_agent_start", [prompt |-> prompt], <<>>, 3, Rat(3, 10), 5, now)
                  EXCEPT !.pc = "done", !.action = "returned"]]
            /\ UNCHANGED facts
       ELSE \E ftsResults \in SearchResults(facts, facts_fts, prompt, 3, now) :
              /\ facts' = Refreshed(facts, SeqIds(ftsResults), now)
              /\ tasks' = [tasks EXCEPT ![t] =
                   RecallTask("before_agent_start", [prompt |-> prompt], ftsResults, 3, Rat(3, 10), 5, now)]
  /\ UNCHANGED <<now, ticks, facts_fts, uuids, calls, ret, vectors>>

\* embeddings.embed(query) resolves.
RecallEmbedded(t) ==
  /\ tasks[t].pc = "recallEmbed"
  /\ tasks' = [tasks EXCEPT ![t].pc = "recallSearch"]
  /\ UNCHANGED <<now, ticks, facts, facts_fts, uuids, calls, ret, vectors>>

\* Mutant of Recalled: a failure of the vector path fails the call.
Recalled_FailureThrows(task, lanceResults, failed) ==
  [task EXCEPT !.pc = "done",
               !.action = IF failed THEN "threw" ELSE "returned",
               !.failed = failed,
               !.results = IF failed THEN <<>>
                           ELSE mergeResults(task.sqlite, lanceResults, task.mergeLimit)]

\* After the try/catch: the lexical and the vector results are fused and
\* returned.
Recalled(task, lanceResults, failed) ==
  [task EXCEPT !.pc = "done", !.action = "returned", !.failed = failed,
               !.results = mergeResults(task.sqlite, lanceResults, task.mergeLimit)]

\* vectorDb.search(vector, limit, minScore) resolves.
RecallVectorSearch(t) ==
  /\ tasks[t].pc = "recallSearch"
  /\ \E lanceResults \in VectorSearchResults(vectors, tasks[t].limit, tasks[t].minScore) :
       tasks' = [tasks EXCEPT ![t] = Recalled(tasks[t], lanceResults, FALSE)]
  /\ UNCHANGED <<now, ticks, facts, facts_fts, uuids, calls, ret, vectors>>

\* embed or vectorDb.search rejects: a warning is logged and lanceResults
\* stays [].
RecallVectorFailed(t) ==
  /\ tasks[t].pc \in {"recallEmbed", "recallSearch"}
  /\ tasks' = [tasks EXCEPT ![t] = Recalled(tasks[t], <<>>, TRUE)]
  /\ UNCHANGED <<now, ticks, facts, facts_fts, uuids, calls, ret, vectors>>

(***************************************************************************)
(* The tool memory_prune                                                   *)
(***************************************************************************)
\* The modes the tool is called with; without a mode it runs 'both'.
PruneModes == {"hard", "soft", "both", "undefined"}

\* Mutant of PruneHard: mode 'soft' prunes too.
PruneHard_Always(mode) == TRUE

\* mode === 'hard' || mode === 'both'
PruneHard(mode) == mode \in {"hard", "both"}

\* mode === 'soft' || mode === 'both'
PruneSoft(mode) == mode \in {"soft", "both"}

\* memory_prune.execute up to its first await: pruneExpired, then
\* decayConfidence, as the mode asks; with nothing deleted there is no await
\* and the tool returns.
MemoryPrune(t) ==
  /\ tasks[t].pc = "idle"
  /\ IF t = 1 THEN TRUE ELSE tasks[t - 1].pc # "idle"
  /\ \E params \in {[mode |-> m] : m \in PruneModes} :
       LET mode == IF params.mode = "undefined" THEN "both" ELSE params.mode
           pruned == IF PruneHard(mode) THEN PruneSelected(facts, now) ELSE {}
           rows == facts \ pruned
           decayed == IF PruneSoft(mode) THEN DecaySelected(rows, now) ELSE {}
       IN /\ facts' = (rows \ decayed)
                        \cup {[r EXCEPT !.confidence = DecayedConfidence(r, now)] : r \in decayed}
          /\ facts_fts' = ApplyAd(facts_fts, pruned)
          /\ \E o \in Orders(pruned) :
               tasks' = [tasks EXCEPT ![t] =
                 [pc |-> IF pruned = {} THEN "done" ELSE "deleteMany",
                  params |-> params, id |-> 0,
                  action |-> IF pruned = {} THEN "returned" ELSE "none",
                  tool |-> "memory_prune",
                  deletedIds |-> [i \in 1..Len(o) |-> o[i].id],
                  ids |-> [i \in 1..Len(o) |-> o[i].id],
                  hardPruned |-> Cardinality(pruned),
                  softDecayed |-> Cardinality(decayed)]]
  /\ UNCHANGED <<now, ticks, uuids, calls, ret, vectors>>

\* What is left of a deleteMany after one id: the next id, or the return of
\* the tool.
PruneNext(task) ==
  [task EXCEPT !.ids = Tail(task.ids),
               !.pc = IF Len(task.ids) = 1 THEN "done" ELSE "deleteMany",
               !.action = IF Len(task.ids) = 1 THEN "returned" ELSE "none"]

\* VectorDB.deleteMany: table.delete of the next id resolves ...
PruneVectorDelete(t) ==
  /\ tasks[t].pc = "deleteMany"
  /\ vectors' = VectorDeleted(vectors, Head(tasks[t].ids))
  /\ tasks' = [tasks EXCEPT ![t] = PruneNext(tasks[t])]
  /\ UNCHANGED <<now, ticks, facts, facts_fts, uuids, calls, ret>>

\* ... or rejects, which deleteMany ignores.
PruneVectorDeleteFailed(t) ==
  /\ tasks[t].pc = "deleteMany"
  /\ tasks' = [tasks EXCEPT ![t] = PruneNext(tasks[t])]
  /\ UNCHANGED <<now, ticks, facts, facts_fts, uuids, calls, ret, vectors>>

\* ensureInitialized rejects: deleteMany rejects before its first delete, the
\* tool logs a warning and returns.
PruneVectorFailed(t) ==
  /\ tasks[t].pc = "deleteMany"
  /\ tasks[t].ids = tasks[t].deletedIds
  /\ tasks' = [tasks EXCEPT ![t].pc = "done", ![t].action = "returned"]
  /\ UNCHANGED <<now, ticks, facts, facts_fts, uuids, calls, ret, vectors>>

\* The wall clock advances by one of the steps, at most max times.
ClockAdvancesBy(steps, max) ==
  /\ ticks < max
  /\ \E d \in steps : now' = now + d
  /\ ticks' = ticks + 1
  /\ UNCHANGED <<facts, facts_fts, uuids, calls, ret, vectors, tasks>>

(***************************************************************************)
(* The tool memory_forget                                                  *)
(***************************************************************************)
\* A memoryId that is no UUID, such as 'abc'.
BadId == -3

\* /^[0-9a-f]{8}-[0-9a-f]{4}-[0-9a-f]{4}-[0-9a-f]{4}-[0-9a-f]{12}$/i.test(id):
\* the ids randomUUID hands out, and those of the legacy rows, are UUIDs.
UuidShaped(id) == id >= 1

\* The calls of memory_forget: with an id (of a record or of none), with a
\* query, with both, with neither, and with empty strings (the id '' is
\* written 0).
ForgetInputs ==
  {[query |-> q, memoryId |-> id] :
     q \in {UNDEF, <<>>, <<"t","h","e"," ","A","P","I">>}, id \in {UNDEFT, 0, 1, BadId}}

IdGiven(id) == id # UNDEFT /\ id # 0

\* memory_forget.execute up to its first await (or to its return).
MemoryForget(t) ==
  /\ tasks[t].pc = "idle"
  /\ IF t = 1 THEN TRUE ELSE tasks[t - 1].pc # "idle"
  /\ \E params \in ForgetInputs :
       IF IdGiven(params.memoryId)
       THEN LET sel == {r \in facts : r.id = params.memoryId}
            IN /\ DeleteRows(sel)
               /\ tasks' = [tasks EXCEPT ![t] =
                    [pc |-> "forgetDelete", params |-> params, id |-> params.memoryId,
                     action |-> "none", tool |-> "memory_forget",
                     sqlDeleted |-> (sel # {}), lanceDeleted |-> FALSE]]
       ELSE IF Truthy(params.query)
       THEN /\ \E sqlResults \in SearchResults(facts, facts_fts, params.query, 5, now) :
                 /\ facts' = Refreshed(facts, SeqIds(sqlResults), now)
                 /\ tasks' = [tasks EXCEPT ![t] =
                      RecallTask("memory_forget", params, sqlResults, 5, Rat(7, 10), 5, now)]
            /\ UNCHANGED facts_fts
       ELSE /\ tasks' = [tasks EXCEPT ![t] =
                 [pc |-> "done", params |-> params, id |-> 0,
                  action |-> "missing_param", tool |-> "memory_forget"]]
            /\ UNCHANGED <<facts, facts_fts>>
  /\ UNCHANGED <<now, ticks, uuids, calls, ret, vectors>>

\* vectorDb.delete(memoryId) resolves ...
ForgetVectorDelete(t) ==
  /\ tasks[t].pc = "forgetDelete"
  /\ UuidShaped(tasks[t].id)
  /\ vectors' = VectorDeleted(vectors, tasks[t].id)
  /\ tasks' = [tasks EXCEPT ![t].pc = "done", ![t].action = "deleted",
                            ![t].lanceDeleted = TRUE]
  /\ UNCHANGED <<now, ticks, facts, facts_fts, uuids, calls, ret>>

\* ... or rejects (the store cannot be opened, the id is no UUID, the delete
\* fails), which the tool ignores.
ForgetVectorFailed(t) ==
  /\ tasks[t].pc = "forgetDelete"
  /\ tasks' = [tasks EXCEPT ![t].pc = "done", ![t].action = "deleted"]
  /\ UNCHANGED <<now, ticks, facts, facts_fts, uuids, calls, ret, vectors>>

(***************************************************************************)
(* The hook agent_end (auto-capture)                                       *)
(***************************************************************************)
\* A message content is a string or an array of blocks.
StringContent(text) == [kind |-> "string", text |-> text, blocks |-> <<>>]
BlocksContent(blocks) == [kind |-> "blocks", text |-> UNDEF, blocks |-> blocks]
TextBlock(text) == [type |-> "text", text |-> text]
ImageBlock == [type |-> "image", text |-> UNDEF]
Message(role, content) == [role |-> role, content |-> content]

\* What the user says in the turns the hook sees.
FourFacts ==
  <<Message("user", BlocksContent(<<TextBlock(<<"I"," ","p","r","e","f","e","r"," ","t","a","b","s">>), TextBlock(<<"A","l","w","a","y","s"," ","u","s","e"," ","t","a","b","s">>),
                                    TextBlock(<<"I"," ","l","i","k","e"," ","V","i","m"," ","a"," ","l","o","t">>), TextBlock(<<"I"," ","n","e","e","d"," ","c","o","f","f","e","e"," ","n","o","w">>)>>))>>

MixedTurn ==
  <<Message("user", StringContent(<<"a","l","w","a","y","s"," "," "," "," ">>)),
    Message("assistant", StringContent(<<"A","l","w","a","y","s"," ","u","s","e"," ","t","a","b","s">>)),
    Message("user", BlocksContent(<<TextBlock(<<"M","y"," ","p","a","s","s","w","o","r","d"," ","i","s"," ","h","u","n","t","e","r","2">>), TextBlock(<<"r","e","m","e","m","b","e","r"," ","t","h","e"," ","m","i","l","k">>),
                                    ImageBlock,
                                    TextBlock(<<"I"," ","p","r","e","f","e","r"," ","t","a","b","s"," ","<","r","e","l","e","v","a","n","t","-","m","e","m","o","r","i","e","s",">">>),
                                    TextBlock(<<"n","e","v","e","r"," "," "," "," "," ">>), TextBlock(<<"I"," ","p","r","e","f","e","r"," ","t","a","b","s">>)>>))>>

SaidTwice ==
  <<Message("user", StringContent(<<"I"," ","p","r","e","f","e","r"," ","t","a","b","s">>)),
    Message("user", StringContent(<<"m","y"," ","s","s","n"," ","i","s"," ","1","2","3">>)),
    Message("user", StringContent(<<"I"," ","p","r","e","f","e","r"," ","t","a","b","s">>)),
    Message("user", StringContent(<<"I"," ","l","i","k","e"," ","i","t">>)),
    Message("user", StringContent(<<"I"," ","l","i","k","e"," ","V","i","m"," ","a"," ","l","o","t">>))>>

\* An event; hasMessages = FALSE stands for an event without messages field.
Event(success, hasMessages, messages) ==
  [success |-> success, hasMessages |-> hasMessages, messages |-> messages]

AgentEndEvents ==
  {Event(FALSE, TRUE, FourFacts), Event(TRUE, FALSE, <<>>), Event(TRUE, TRUE, <<>>),
   Event(TRUE, TRUE, FourFacts), Event(TRUE, TRUE, MixedTurn), Event(TRUE, TRUE, SaidTwice)}

\* The text blocks of an array content.
BlockTexts(blocks) ==
  LET sel == SelectSeq(blocks, LAMBDA b : b.type = "text" /\ b.text # UNDEF)
  IN [i \in 1..Len(sel) |-> sel[i].text]

\* texts: the string contents and text blocks of the user messages.
RECURSIVE UserTexts(_, _)
UserTexts(messages, i) ==
  IF i > Len(messages) THEN <<>>
  ELSE LET msg == messages[i]
           here == IF msg.role # "user" THEN <<>>
                   ELSE IF msg.content.kind = "string" THEN <<msg.content.text>>
                   ELSE BlockTexts(msg.content.blocks)
       IN here \o UserTexts(messages, i + 1)

\* Every text the events hold.
CaptureTexts ==
  UNION {{UserTexts(e.messages, 1)[i] : i \in 1..Len(UserTexts(e.messages, 1))} :
           e \in AgentEndEvents}

ShouldCaptureMemo == [text \in CaptureTexts |-> shouldCapture(text)]

\* texts.filter(t => t && shouldCapture(t)).slice(0, 3)
ToCapture(texts) ==
  Slice(SelectSeq(texts, LAMBDA text : Truthy(text) /\ ShouldCaptureMemo[text]), 3)

\* The entry auto-capture passes to factsDb.store.
CaptureEntry(text) ==
  LET category == detectCategory(text)
      extracted == extractStructuredFields(text, category)
  IN Entry(text, category, Importance07, extracted.entity, extracted.key,
           extracted.value, "auto-capture")

CaptureMemo == [text \in CaptureTexts |-> CaptureEntry(text)]

\* The loop goes on to store this text: the extractor found an entity or a
\* key, and no record has the text.
Capturable(rows, entry) ==
  /\ Truthy(entry.entity) \/ Truthy(entry.key)
  /\ ~hasDuplicate(rows, entry.text)

\* The handler's locals; entries holds, for each text of toCapture, the entry
\* the loop would store (category and extracted depend on the text alone).
CaptureTaskOf(event, texts) ==
  [pc |-> "capture", params |-> event, id |-> 0, action |-> "none", tool |-> "agent_end",
   toCapture |-> texts, entries |-> [i \in 1..Len(texts) |-> CaptureMemo[texts[i]]],
   idx |-> 0, written |-> 0, stored |-> 0, warned |-> 0]

CaptureTask(event) == CaptureTaskOf(event, ToCapture(UserTexts(event.messages, 1)))

\* The loop is over: the handler returns.
CaptureDone(task) == [task EXCEPT !.pc = "done", !.action = "captured"]

\* The outer catch: the exception is logged, the handler returns.
CaptureThrew(task) == [task EXCEPT !.pc = "done", !.action = "failed", !.warned = @ + 1]

\* The loop from the i-th text up to the next await: the texts without
\* entity and key and the duplicates are skipped, the next one is stored.
CaptureFrom(t, task, i) ==
  LET cands == {j \in i..Len(task.toCapture) : Capturable(facts, task.entries[j])}
  IN IF cands = {}
     THEN /\ tasks' = [tasks EXCEPT ![t] = CaptureDone(task)]
          /\ UNCHANGED <<facts, facts_fts, uuids, ret>>
     ELSE LET j == CHOOSE c \in cands : \A d \in cands : c <= d
          IN /\ DoStore(task.entries[j], "store")
             /\ tasks' = [tasks EXCEPT ![t] =
                  IF ret'.threw THEN CaptureThrew(task)
                  ELSE [task EXCEPT !.pc = "capEmbed", !.idx = j, !.id = ret'.val.id,
                                    !.written = @ + 1]]

\* The handler is called: up to its first await, or to its return.
AgentEnd(t) ==
  /\ tasks[t].pc = "idle"
  /\ IF t = 1 THEN TRUE ELSE tasks[t - 1].pc # "idle"
  /\ \E event \in AgentEndEvents :
       IF ~event.success \/ ~event.hasMessages \/ Len(event.messages) = 0
       THEN /\ tasks' = [tasks EXCEPT ![t] =
                 [pc |-> "done", params |-> event, id |-> 0, action |-> "returned",
                  tool |-> "agent_end", toCapture |-> <<>>, entries |-> <<>>, idx |-> 0,
                  written |-> 0, stored |-> 0, warned |-> 0]]
            /\ UNCHANGED <<facts, facts_fts, uuids, ret>>
       ELSE CaptureFrom(t, CaptureTask(event), 1)
  /\ UNCHANGED <<now, ticks, calls, vectors>>

\* stored++, and the loop goes on.
CaptureNext(t, task) == CaptureFrom(t, [task EXCEPT !.stored = @ + 1], task.idx + 1)

\* embeddings.embed(text) resolves.
CaptureEmbedded(t) ==
  /\ tasks[t].pc = "capEmbed"
  /\ tasks' = [tasks EXCEPT ![t].pc = "capHasDuplicate"]
  /\ UNCHANGED <<now, ticks, facts, facts_fts, uuids, calls, ret, vectors>>

\* vectorDb.hasDuplicate(vector) resolves.
CaptureVectorHasDuplicate(t) ==
  /\ tasks[t].pc = "capHasDuplicate"
  /\ \E dup \in VectorHasDuplicateResults(vectors, tasks[t].toCapture[tasks[t].idx]) :
       IF dup THEN CaptureNext(t, tasks[t])
       ELSE /\ tasks' = [tasks EXCEPT ![t].pc = "capDelete"]
            /\ UNCHANGED <<facts, facts_fts, uuids, ret>>
  /\ UNCHANGED <<now, ticks, calls, vectors>>

\* vectorDb.store: the row of the same id is deleted ...
CaptureVectorDelete(t) ==
  /\ tasks[t].pc = "capDelete"
  /\ vectors' = VectorDeleted(vectors, tasks[t].id)
  /\ tasks' = [tasks EXCEPT ![t].pc = "capAdd"]
  /\ UNCHANGED <<now, ticks, facts, facts_fts, uuids, calls, ret>>

\* ... or the delete fails, which store() ignores ...
CaptureVectorDeleteFailed(t) ==
  /\ tasks[t].pc = "capDelete"
  /\ tasks' = [tasks EXCEPT ![t].pc = "capAdd"]
  /\ UNCHANGED <<now, ticks, facts, facts_fts, uuids, calls, ret, vectors>>

\* ... and the new row is added.
CaptureVectorAdd(t) ==
  /\ tasks[t].pc = "capAdd"
  /\ vectors' = VectorAdded(vectors, tasks[t].id, [text |-> tasks[t].toCapture[tasks[t].idx]], now)
  /\ CaptureNext(t, tasks[t])
  /\ UNCHANGED <<now, ticks, calls>>

\* embed, vectorDb.hasDuplicate or table.add rejects: the inner catch logs a
\* warning.
CaptureVectorFailed(t) ==
  /\ tasks[t].pc \in {"capEmbed", "capHasDuplicate", "capAdd"}
  /\ CaptureNext(t, [tasks[t] EXCEPT !.warned = @ + 1])
  /\ UNCHANGED <<now, ticks, calls, vectors>>

(***************************************************************************)
(* The service: the hourly maintenance tick                                *)
(***************************************************************************)
\* The callback of pruneTimer: pruneExpired, then decayConfidence; the
\* deleteMany it starts is not awaited and may fail, and is taken here with
\* the tick.
pruneTimer(deleted) ==
  LET pruned == PruneSelected(facts, now)
      rows == facts \ pruned
      decayed == DecaySelected(rows, now)
  IN /\ UNCHANGED <<now, ticks, uuids, calls, tasks>>
     /\ facts_fts' = ApplyAd(facts_fts, pruned)
     /\ facts' = (rows \ decayed)
                   \cup {[r EXCEPT !.confidence = DecayedConfidence(r, now)] : r \in decayed}
     /\ vectors' = SelectSeq(vectors, LAMBDA v : v.id \notin deleted)

\* const { ids: hardIds } = factsDb.pruneExpired()
HardIds == {r.id : r \in PruneSelected(facts, now)}

\* deleteMany deletes the rows of some of the ids: table.delete may reject
\* for each, and deleteMany goes on to the next.
MaintenanceTick ==
  /\ \E deleted \in SUBSET HardIds : pruneTimer(deleted)
  /\ ret' = ret

\* The clock advances by the life of a session record at each step.
LiveClock == ClockAdvancesBy({TTL_DEFAULTS.session}, MaxLiveTicks)

\* A call that writes: at most MaxLiveCalls of them, none within the last
\* two steps of the clock.
LiveCall ==
  /\ ticks + 1 < MaxLiveTicks
  /\ calls < MaxLiveCalls
  /\ calls' = calls + 1
  /\ UNCHANGED <<now, ticks, vectors, tasks>>

\* A session record whose caller asks for no expiry.
NullSession == [DebugNow EXCEPT !.decayClass = "session", !.expiresAt = NULLT]

LiveEntries == {DebugNow, NullSession}

LiveStore == LiveCall /\ \E entry \in LiveEntries : DoStore(entry, "store")

\* The context the run saves.
LiveContexts == {Context(<<"d","e","p","l","o","y">>, <<"b","u","i","l","d","i","n","g">>, UNDEF, NoFiles)}

LiveSaveCheckpoint == LiveCall /\ \E context \in LiveContexts : saveCheckpoint(context)

\* The ids the run hands out.
LiveIds == 1..MaxLiveCalls

LiveConfirmFact == LiveCall /\ uuids' = uuids /\ \E id \in LiveIds : confirmFact(id)

\* factsDb.search and factsDb.lookup, as often as the agent recalls.
LiveSearch ==
  /\ \E query \in {<<"\"","f","r","e","d","\""," ","a","u","t","h">>}, limit \in {2} :
       \E results \in SearchResults(facts, facts_fts, query, limit, now) :
         /\ facts' = Refreshed(facts, SeqIds(results), now)
         /\ ret' = [op |-> "search", query |-> query, limit |-> limit, val |-> results]
  /\ UNCHANGED <<now, ticks, facts_fts, uuids, calls, vectors, tasks>>

LiveLookup ==
  /\ \E entity \in {<<"s","y","s","t","e","m">>} :
       \E results \in LookupResults(facts, entity, now) :
         /\ facts' = Refreshed(facts, SeqIds(results), now)
         /\ ret' = [op |-> "lookup", entity |-> entity, key |-> UNDEF, val |-> results]
  /\ UNCHANGED <<now, ticks, facts_fts, uuids, calls, vectors, tasks>>

(***************************************************************************)
(* The tool memory_checkpoint                                              *)
(***************************************************************************)
\* The parameters the tool is called with: a save with each context, a save
\* without intent, a save with an empty state, and a restore.
CheckpointParams(action, intent, state, expectedOutcome, workingFiles) ==
  [action |-> action, intent |-> intent, state |-> state,
   expectedOutcome |-> expectedOutcome, workingFiles |-> workingFiles]

MemoryCheckpointInputs ==
  {CheckpointParams("save", c.intent, c.state, c.expectedOutcome, c.workingFiles) : c \in Contexts}
  \cup {CheckpointParams("save", UNDEF, <<"b","u","i","l","d","i","n","g">>, UNDEF, NoFiles),
        CheckpointParams("save", <<"d","e","p","l","o","y">>, <<>>, <<"g","r","e","e","n">>, NoFiles),
        CheckpointParams("restore", UNDEF, UNDEF, UNDEF, NoFiles)}

\* A synchronous tool runs to its return in one step.
ToolCall ==
  /\ calls < MaxToolCalls
  /\ calls' = calls + 1
  /\ UNCHANGED <<now, ticks, vectors, tasks>>

\* Mutant of CheckpointMissing: only the intent is required.
CheckpointMissing_IntentOnly(params) == ~Truthy(params.intent)

\* !intent || !state
CheckpointMissing(params) == ~Truthy(params.intent) \/ ~Truthy(params.state)

\* memory_checkpoint.execute
MemoryCheckpoint ==
  /\ ToolCall
  /\ \E params \in MemoryCheckpointInputs :
       IF params.action = "save"
       THEN IF CheckpointMissing(params)
            THEN /\ ret' = [op |-> "memory_checkpoint", params |-> params,
                            details |-> [error |-> "missing_param"]]
                 /\ UNCHANGED <<facts, facts_fts, uuids>>
            ELSE saveCheckpoint(Context(params.intent, params.state,
                                        params.expectedOutcome, params.workingFiles))
       ELSE /\ restoreCheckpoint
            /\ UNCHANGED <<facts, facts_fts, uuids>>

\* What the clock advances by between two tool calls: one hour and three
\* hours (together the TTL of a checkpoint).
ToolClockSteps == {HOUR, 3 * HOUR}

ToolClockAdvances ==
  /\ ticks < MaxToolTicks
  /\ \E d \in ToolClockSteps : now' = now + d
  /\ ticks' = ticks + 1
  /\ UNCHANGED <<facts, facts_fts, uuids, calls, ret, vectors, tasks>>

(***************************************************************************)
(* Specification                                                           *)
(***************************************************************************)
\* The constructor has run, on a new file or on a file of the old version.
Init ==
  /\ now = T0
  /\ ticks = 0
  /\ \E old \in {{}, LegacyFile} :
       /\ facts = (IF old = {} THEN {} ELSE OpenLegacy(old, T0))
       /\ facts_fts = (IF old = {} THEN {} ELSE OpenLegacyFts(old, T0))
  /\ uuids = 0
  /\ calls = 0
  /\ ret = [op |-> "open"]
  /\ vectors = <<>>
  /\ tasks = [t \in 1..MaxTasks |-> NoTask]

\* The wall clock advances between two calls.
Tick ==
  /\ ret = Idle
  /\ ticks < MaxTicks
  /\ \E d \in ClockSteps : now' = now + d
  /\ ticks' = ticks + 1
  /\ UNCHANGED <<facts, facts_fts, uuids, calls, ret, vectors, tasks>>

Store ==
  /\ Call
  /\ \E entry \in DerivedEntries : DoStore(entry, "store")
  /\ UNCHANGED <<now, ticks>>

StoreExplicit ==
  /\ Call
  /\ \E entry \in ExplicitEntries(now) : DoStore(entry, "store")
  /\ UNCHANGED <<now, ticks>>

\* A record a caller stores under the entity and key prefix of the
\* checkpoints, whose text is not JSON.
BrokenBlob ==
  Entry(<<"{","i","n","t","e","n","t",":","d","e","p","l","o","y">>, <<"o","t","h","e","r">>, Importance07, <<"s","y","s","t","e","m">>, <<"c","h","e","c","k","p","o","i","n","t",":","m","a","n","u","a","l">>, NULL, "conversation")

StoreBlob ==
  /\ Call
  /\ DoStore(BrokenBlob, "store")
  /\ UNCHANGED <<now, ticks>>

\* The caller takes the result of the call; the next call can start.
Return ==
  /\ ret # Idle
  /\ ret' = Idle
  /\ UNCHANGED <<now, ticks, facts, facts_fts, uuids, calls, vectors, tasks>>

Next ==
  \/ Return
  \/ Tick
  \/ Store
  \/ Search
  \/ Lookup
  \/ Delete
  \/ PruneExpired
  \/ DecayConfidence
  \/ ConfirmFact
  \/ SaveCheckpoint
  \/ RestoreCheckpoint
  \/ BackfillDecayClasses
  \/ Reopen

Spec == Init /\ [][Next]_vars

\* Callers that supply expiresAt and confidence themselves.
NextExplicit ==
  \/ Return
  \/ Tick
  \/ StoreExplicit
  \/ Lookup
  \/ Delete
  \/ PruneExpired
  \/ DecayConfidence
  \/ ConfirmFact
  \/ BackfillDecayClasses
  \/ Reopen

SpecExplicit == Init /\ [][NextExplicit]_vars

\* The agent calls memory_store, possibly again before a call has returned.
NextFacade ==
  \/ ClockAdvances
  \/ \E t \in 1..MaxTasks : MemoryStore(t)
  \/ \E t \in 1..MaxTasks : Embedded(t)
  \/ \E t \in 1..MaxTasks : VectorHasDuplicate(t)
  \/ \E t \in 1..MaxTasks : VectorDelete(t)
  \/ \E t \in 1..MaxTasks : VectorDeleteFailed(t)
  \/ \E t \in 1..MaxTasks : VectorAdd(t)
  \/ \E t \in 1..MaxTasks : VectorFailed(t)

SpecFacade == Init /\ [][NextFacade]_vars

\* Callers of the fuser.
NextMerge ==
  \/ Return
  \/ MergeResults

SpecMerge == Init /\ [][NextMerge]_vars

\* The agent saves and restores checkpoints while the clock advances.
NextCheckpoint ==
  \/ ToolClockAdvances
  \/ MemoryCheckpoint

SpecCheckpoint == Init /\ [][NextCheckpoint]_vars

\* The agent stores and recalls, and the embedding provider or the vector
\* store may fail.
NextRecall ==
  \/ NextFacade
  \/ \E t \in 1..MaxTasks : MemoryRecall(t)
  \/ \E t \in 1..MaxTasks : BeforeAgentStart(t)
  \/ \E t \in 1..MaxTasks : RecallEmbedded(t)
  \/ \E t \in 1..MaxTasks : RecallVectorSearch(t)
  \/ \E t \in 1..MaxTasks : RecallVectorFailed(t)

SpecRecall == Init /\ [][NextRecall]_vars

\* The agent stores and prunes; between two calls the clock may pass the
\* expiry of session records.
NextPrune ==
  \/ ClockAdvancesBy({TTL_DEFAULTS.session + HOUR}, MaxTicks)
  \/ \E t \in 1..MaxTasks : MemoryStore(t)
  \/ \E t \in 1..MaxTasks : Embedded(t)
  \/ \E t \in 1..MaxTasks : VectorHasDuplicate(t)
  \/ \E t \in 1..MaxTasks : VectorDelete(t)
  \/ \E t \in 1..MaxTasks : VectorDeleteFailed(t)
  \/ \E t \in 1..MaxTasks : VectorAdd(t)
  \/ \E t \in 1..MaxTasks : VectorFailed(t)
  \/ \E t \in 1..MaxTasks : MemoryPrune(t)
  \/ \E t \in 1..MaxTasks : PruneVectorDelete(t)
  \/ \E t \in 1..MaxTasks : PruneVectorDeleteFailed(t)
  \/ \E t \in 1..MaxTasks : PruneVectorFailed(t)

SpecPrune == Init /\ [][NextPrune]_vars

\* The agent stores a memory, then saves checkpoints and forgets.
NextForget ==
  \/ (calls < MaxForgetCalls /\ MemoryCheckpoint)
  \/ MemoryStore(1)
  \/ \E t \in 1..MaxTasks : Embedded(t)
  \/ \E t \in 1..MaxTasks : VectorHasDuplicate(t)
  \/ \E t \in 1..MaxTasks : VectorDelete(t)
  \/ \E t \in 1..MaxTasks : VectorDeleteFailed(t)
  \/ \E t \in 1..MaxTasks : VectorAdd(t)
  \/ \E t \in 1..MaxTasks : VectorFailed(t)
  \/ \E t \in 1..MaxTasks : MemoryForget(t)
  \/ \E t \in 1..MaxTasks : ForgetVectorDelete(t)
  \/ \E t \in 1..MaxTasks : ForgetVectorFailed(t)
  \/ \E t \in 1..MaxTasks : RecallEmbedded(t)
  \/ \E t \in 1..MaxTasks : RecallVectorSearch(t)
  \/ \E t \in 1..MaxTasks : RecallVectorFailed(t)

SpecForget == Init /\ [][NextForget]_vars

\* Calls that find nothing: ids without a record, expired checkpoints and a
\* blob that does not parse.
NextNotFound ==
  \/ Return
  \/ Tick
  \/ SaveCheckpoint
  \/ StoreBlob
  \/ Delete
  \/ ConfirmFact
  \/ RestoreCheckpoint

SpecNotFound == Init /\ [][NextNotFound]_vars

\* Turns end and the hook captures what the user said.
NextCapture ==
  \/ \E t \in 1..MaxTasks : AgentEnd(t)
  \/ \E t \in 1..MaxTasks : CaptureEmbedded(t)
  \/ \E t \in 1..MaxTasks : CaptureVectorHasDuplicate(t)
  \/ \E t \in 1..MaxTasks : CaptureVectorDelete(t)
  \/ \E t \in 1..MaxTasks : CaptureVectorDeleteFailed(t)
  \/ \E t \in 1..MaxTasks : CaptureVectorAdd(t)
  \/ \E t \in 1..MaxTasks : CaptureVectorFailed(t)

SpecCapture == Init /\ [][NextCapture]_vars

\* The service runs: the clock advances and the maintenance tick fires,
\* while the agent stores, confirms and recalls.
NextLive ==
  \/ LiveClock
  \/ MaintenanceTick
  \/ LiveStore
  \/ LiveSaveCheckpoint
  \/ LiveConfirmFact
  \/ LiveSearch
  \/ LiveLookup

\* The timer fires every hour: a tick that has records to prune is not put
\* off for ever, and the clock does not stop.
PruneDue == PruneSelected(facts, now) # {}

SpecLive ==
  Init /\ [][NextLive]_vars /\ WF_vars(LiveClock) /\ WF_vars(PruneDue /\ MaintenanceTick)

\* Callers that search and look up records of every class, one of them
\* stored already expired.
AccessEntries(nowSec) ==
  {[FredNoKey EXCEPT !.decayClass = "stable", !.expiresAt = nowSec - HOUR],
   [AlwaysTabs EXCEPT !.decayClass = "permanent"],
   DebugNow}

StoreAccess ==
  /\ Call
  /\ \E entry \in AccessEntries(now) : DoStore(entry, "store")
  /\ UNCHANGED <<now, ticks>>

NextAccess ==
  \/ Return
  \/ Tick
  \/ StoreAccess
  \/ SaveCheckpoint
  \/ Search
  \/ Lookup

SpecAccess == Init /\ [][NextAccess]_vars

(***************************************************************************)
(* A caller that decays confidences and reads them back                    *)
(***************************************************************************)
MaxDecayCalls == 4
MaxDecayTicks == 2

\* What the caller noted of each record when decayConfidence or store last
\* wrote its confidence, and the calls that have touched the record since.
Seen == IF tasks[1].pc = "watch" THEN tasks[1].seen ELSE {}

Note(seen) ==
  tasks' = [tasks EXCEPT ![1] = [pc |-> "watch", params |-> <<>>, id |-> 0,
                                 action |-> "none", seen |-> seen]]

NoteOf(row, since) == [id |-> row.id, confidence |-> row.confidence, since |-> since]

NoteSince(seen, ids, op) ==
  {IF s.id \in ids THEN [s EXCEPT !.since = @ \cup {op}] ELSE s : s \in seen}

WatchCall ==
  /\ calls < MaxDecayCalls
  /\ calls' = calls + 1
  /\ UNCHANGED <<now, ticks, vectors>>

WatchClock ==
  /\ ticks < MaxDecayTicks
  /\ \E d \in ClockSteps : now' = now + d
  /\ ticks' = ticks + 1
  /\ UNCHANGED <<facts, facts_fts, uuids, calls, ret, vectors, tasks>>

\* The records the caller stores: one with derived fields, one with a
\* confidence of its own, one whose class and expiry the caller chose, one
\* for which the caller asked for no expiry.
WatchEntries(nowSec) ==
  {FredVim,
   [ProjectGoal EXCEPT !.decayClass = "active", !.confidence = Rat(1, 2)],
   [DebugNow EXCEPT !.decayClass = "stable", !.expiresAt = nowSec + DAY + HOUR],
   NullSession}

WatchStore ==
  /\ WatchCall
  /\ \E entry \in WatchEntries(now) :
       /\ DoStore(entry, "store")
       /\ IF ret'.threw
          THEN Note(Seen)
          ELSE Note({s \in Seen : s.id # ret'.val.id}
                      \cup {NoteOf(r, IF entry.confidence = UndefConf
                                      THEN {} ELSE {"confidence"}) :
                              r \in {n \in facts' : n.id = ret'.val.id}})

WatchDecayConfidence ==
  LET sel == DecaySelected(facts, now)
  IN /\ WatchCall
     /\ UpdateRows(sel, LAMBDA r : [r EXCEPT !.confidence = DecayedConfidence(r, now)])
     /\ ret' = [op |-> "decayConfidence", val |-> Cardinality(sel)]
     /\ uuids' = uuids
     /\ Note({NoteOf(r, {}) : r \in facts'})

WatchConfirmFact ==
  /\ WatchCall
  /\ uuids' = uuids
  /\ \E id \in {r.id : r \in facts} :
       /\ confirmFact(id)
       /\ Note(NoteSince(Seen, {id}, "confirmFact"))

WatchLookup ==
  /\ WatchCall
  /\ \E entity \in {<<"f","r","e","d">>} :
       \E results \in LookupResults(facts, entity, now) :
         /\ facts' = Refreshed(facts, SeqIds(results), now)
         /\ ret' = [op |-> "lookup", entity |-> entity, key |-> UNDEF, val |-> results]
         /\ Note(NoteSince(Seen, SeqIds(results), "refresh"))
  /\ UNCHANGED <<facts_fts, uuids>>

WatchBackfill ==
  LET sel == BackfillChanged(facts)
  IN /\ WatchCall
     /\ UpdateRows(sel, LAMBDA r : BackfillUpdated(r, now))
     /\ ret' = [op |-> "backfillDecayClasses",
                val |-> [dc \in DECAY_CLASSES |->
                           Cardinality({r \in sel : BackfillClass(r) = dc})]]
     /\ uuids' = uuids
     /\ Note(NoteSince(Seen, {r.id : r \in sel}, "backfill"))

NextDecay ==
  \/ WatchClock
  \/ WatchStore
  \/ WatchDecayConfidence
  \/ WatchConfirmFact
  \/ WatchLookup
  \/ WatchBackfill

SpecDecay == Init /\ [][NextDecay]_vars

(***************************************************************************)
(* The maintenance timer and the vector store                              *)
(***************************************************************************)
MaxTimerTicks == 2

\* More than the life of a session record passes between two looks at the
\* clock.
TimerClock == ClockAdvancesBy({TTL_DEFAULTS.session + HOUR}, MaxTimerTicks)

\* The tick of the timer, with the time pruneExpired read, what deleteMany
\* was given and what it deleted.
TimerTick ==
  \E deleted \in SUBSET HardIds :
    /\ pruneTimer(deleted)
    /\ ret' = [op |-> "pruneTimer", nowSec |-> now, ids |-> HardIds, deleted |-> deleted]

\* The tick whose deleteMany deletes every id it is given.
TimerDeletes ==
  /\ PruneDue
  /\ pruneTimer(HardIds)
  /\ ret' = [op |-> "pruneTimer", nowSec |-> now, ids |-> HardIds, deleted |-> HardIds]

\* The agent stores a memory in both stores while the timer runs.
NextTimer ==
  \/ TimerClock
  \/ TimerTick
  \/ MemoryStore(1)
  \/ Embedded(1)
  \/ VectorHasDuplicate(1)
  \/ VectorDelete(1)
  \/ VectorDeleteFailed(1)
  \/ VectorAdd(1)
  \/ VectorFailed(1)

\* The timer fires every hour, and the vector store does not fail for ever:
\* among the ticks that have records to prune, one has its deleteMany
\* succeed.
SpecTimer ==
  /\ Init /\ [][NextTimer]_vars
  /\ WF_vars(TimerClock)
  /\ WF_vars(PruneDue /\ TimerTick)
  /\ SF_vars(TimerDeletes)

(***************************************************************************)
(* VectorDB.delete and VectorDB.deleteMany, called directly                *)
(***************************************************************************)
MaxVectorCalls == 3

VectorCall ==
  /\ calls < MaxVectorCalls
  /\ calls' = calls + 1
  /\ UNCHANGED <<now, ticks, facts, facts_fts, tasks>>

\* The ids delete and deleteMany are called with.
VectorIdInputs == {1, 2, BadId}

VectorIdLists ==
  {<<>>} \cup {<<a>> : a \in VectorIdInputs}
         \cup {<<a, b>> : a \in VectorIdInputs, b \in VectorIdInputs}

\* VectorDB.store of a new row.
VectorDbStore ==
  /\ VectorCall
  /\ \E params \in {PreferTabs, FixAuth} :
       /\ vectors' = VectorAdded(vectors, FreshUuid, params, now)
       /\ ret' = [op |-> "vectorStore", val |-> FreshUuid, error |-> "none"]
  /\ uuids' = FreshUuid

\* VectorDB.delete(id): ensureInitialized rejects, or the id is no UUID and
\* 'Invalid ID' is thrown, or table.delete resolves or rejects.
VectorDbDelete ==
  /\ VectorCall
  /\ uuids' = uuids
  /\ \E id \in VectorIdInputs :
       \/ /\ ret' = [op |-> "vectorDelete", id |-> id, val |-> FALSE, error |-> "rejected"]
          /\ vectors' = vectors
       \/ /\ ~UuidShaped(id)
          /\ ret' = [op |-> "vectorDelete", id |-> id, val |-> FALSE, error |-> "Invalid ID"]
          /\ vectors' = vectors
       \/ /\ UuidShaped(id)
          /\ ret' = [op |-> "vectorDelete", id |-> id, val |-> TRUE, error |-> "none"]
          /\ vectors' = VectorDeleted(vectors, id)

\* The positions of ids at which deleteMany calls table.delete.
DeleteManyTried(ids) == {i \in 1..Len(ids) : UuidShaped(ids[i])}

\* VectorDB.deleteMany(ids): 0 for no ids; ensureInitialized rejects; or
\* each id that is a UUID is deleted, table.delete resolving for some and
\* rejecting for the others, and the deletes that resolved are counted.
VectorDbDeleteMany ==
  /\ VectorCall
  /\ uuids' = uuids
  /\ \E ids \in VectorIdLists :
       \/ /\ ids = <<>>
          /\ ret' = [op |-> "vectorDeleteMany", ids |-> ids, val |-> 0, error |-> "none"]
          /\ vectors' = vectors
       \/ /\ ids # <<>>
          /\ ret' = [op |-> "vectorDeleteMany", ids |-> ids, val |-> 0, error |-> "rejected"]
          /\ vectors' = vectors
       \/ /\ ids # <<>>
          /\ \E resolved \in SUBSET DeleteManyTried(ids) :
               /\ ret' = [op |-> "vectorDeleteMany", ids |-> ids,
                          val |-> Cardinality(resolved), error |-> "none"]
               /\ vectors' = SelectSeq(vectors,
                                LAMBDA v : \A i \in resolved : v.id # ids[i])

NextVector ==
  \/ VectorDbStore
  \/ VectorDbDelete
  \/ VectorDbDeleteMany

SpecVector == Init /\ [][NextVector]_vars

(***************************************************************************)
(* classifyDecay, called directly                                          *)
(***************************************************************************)
MaxClassifyCalls == 2

\* Entities, keys and texts that match the rules of several classes at once,
\* of one class, and of none.
ClassifyEntities == {NULL, <<"D","e","c","i","s","i","o","n">>, <<"P","r","o","j","e","c","t">>, <<"F","r","e","d">>}
ClassifyKeys ==
  {NULL, <<"c","h","e","c","k","p","o","i","n","t",":","t","a","s","k">>, <<"d","e","b","u","g","_","b","r","a","n","c","h">>, <<"e","m","a","i","l","_","t","e","m","p">>, <<"P","r","e","f","l","i","g","h","t">>, <<"e","d","i","t","o","r">>}
ClassifyTexts ==
  {<<"o","k">>, <<"A","l","w","a","y","s"," ","u","s","e"," ","t","a","b","s"," ","r","i","g","h","t"," ","n","o","w">>, <<"w","o","r","k","i","n","g"," ","o","n"," ","i","t"," ","r","i","g","h","t"," ","n","o","w">>, <<"n","e","e","d"," ","t","o"," ","f","i","x"," ","i","t">>}

Classify ==
  /\ calls < MaxClassifyCalls
  /\ calls' = calls + 1
  /\ \E entity \in ClassifyEntities, key \in ClassifyKeys, text \in ClassifyTexts :
       ret' = [op |-> "classifyDecay", entity |-> entity, key |-> key, text |-> text,
               val |-> classifyDecay(entity, key, NULL, text)]
  /\ UNCHANGED <<now, ticks, facts, facts_fts, uuids, vectors, tasks>>

NextClassify == Classify

SpecClassify == Init /\ [][NextClassify]_vars

\* The tick whose deleteMany deletes the row of every id it is given.
TickDeletes ==
  /\ pruneTimer(HardIds)
  /\ ret' = ret

\* Every writer of the two stores, overlapping at their awaits, with an
\* embedding provider and a vector store that never reject.
NextUnfailing ==
  \/ ClockAdvancesBy({TTL_DEFAULTS.session + HOUR}, MaxTicks)
  \/ TickDeletes
  \/ \E t \in 1..MaxTasks : MemoryStore(t)
  \/ \E t \in 1..MaxTasks : Embedded(t)
  \/ \E t \in 1..MaxTasks : VectorHasDuplicate(t)
  \/ \E t \in 1..MaxTasks : VectorDelete(t)
  \/ \E t \in 1..MaxTasks : VectorAdd(t)
  \/ \E t \in 1..MaxTasks : AgentEnd(t)
  \/ \E t \in 1..MaxTasks : CaptureEmbedded(t)
  \/ \E t \in 1..MaxTasks : CaptureVectorHasDuplicate(t)
  \/ \E t \in 1..MaxTasks : CaptureVectorDelete(t)
  \/ \E t \in 1..MaxTasks : CaptureVectorAdd(t)
  \/ \E t \in 1..MaxTasks : MemoryForget(t)
  \/ \E t \in 1..MaxTasks : ForgetVectorDelete(t)
  \/ \E t \in 1..MaxTasks : RecallEmbedded(t)
  \/ \E t \in 1..MaxTasks : RecallVectorSearch(t)
  \/ \E t \in 1..MaxTasks : MemoryPrune(t)
  \/ \E t \in 1..MaxTasks : PruneVectorDelete(t)

SpecUnfailing == Init /\ [][NextUnfailing]_vars

(***************************************************************************)
(* VectorDB: ensureInitialized and doInitialize                            *)
(***************************************************************************)
LANCE_TABLE == "memories"

\* The id '__schema__' of the row createTable is given.
SchemaId == -4

SeedRow == [id |-> SchemaId, text |-> <<>>, createdAt |-> 0]

\* A row a table of an earlier run holds.
EarlierRow == [id |-> 1, text |-> <<"I"," ","p","r","e","f","e","r"," ","t","a","b","s">>, createdAt |-> T0 - HOUR]

\* The VectorDB object after its constructor, with the directory it is to
\* open: table is `this.table !== null`; initPromise is 'null' or tells
\* where the doInitialize run it holds stands; tables is what
\* db.tableNames() would return.
VectorDb(tables) ==
  [op |-> "VectorDB", table |-> FALSE, initPromise |-> "null", tables |-> tables]

\* The awaits of doInitialize.
InitPending == {"connect", "tableNames", "openTable", "createTable", "deleteSeed"}

\* ensureInitialized up to its return: the object afterwards, and whether
\* the caller's await is of a promise already resolved ('touch') or of
\* initPromise ('awaitInit').
ensureInitialized(vdb) ==
  IF vdb.table THEN [vdb |-> vdb, pc |-> "touch"]
  ELSE IF vdb.initPromise # "null" THEN [vdb |-> vdb, pc |-> "awaitInit"]
  ELSE [vdb |-> [vdb EXCEPT !.initPromise = "connect"], pc |-> "awaitInit"]

\* A new directory, or one with a table of an earlier run.
InitVectorDb ==
  /\ now = T0
  /\ ticks = 0
  /\ facts = {}
  /\ facts_fts = {}
  /\ uuids = 0
  /\ calls = 0
  /\ \E tables \in {{}, {LANCE_TABLE}} :
       /\ ret = VectorDb(tables)
       /\ vectors = (IF tables = {} THEN <<>> ELSE <<EarlierRow>>)
  /\ tasks = [t \in 1..MaxTasks |-> NoTask]

VectorDbOps == {"search", "hasDuplicate", "count", "store"}

\* An operation is called: it runs ensureInitialized and awaits.
VectorDbCalled(t) ==
  /\ tasks[t].pc = "idle"
  /\ IF t = 1 THEN TRUE ELSE tasks[t - 1].pc # "idle"
  /\ \E op \in VectorDbOps :
       LET e == ensureInitialized(ret)
       IN /\ ret' = e.vdb
          /\ tasks' = [tasks EXCEPT ![t] =
               [pc |-> e.pc, params |-> [op |-> op, text |-> <<"I"," ","l","i","k","e"," ","V","i","m"," ","a"," ","l","o","t">>], id |-> 2,
                action |-> "none", tool |-> "VectorDB", rows |-> <<>>, val |-> <<>>]]
  /\ UNCHANGED <<now, ticks, facts, facts_fts, uuids, calls, vectors>>

\* this.db = await lancedb.connect(this.dbPath)
DbConnected ==
  /\ ret.initPromise = "connect"
  /\ ret' = [ret EXCEPT !.initPromise = "tableNames"]
  /\ UNCHANGED <<now, ticks, facts, facts_fts, uuids, calls, vectors, tasks>>

\* const tables = await this.db.tableNames(), and the branch taken
DbTableNames ==
  /\ ret.initPromise = "tableNames"
  /\ ret' = [ret EXCEPT !.initPromise =
               IF LANCE_TABLE \in ret.tables THEN "openTable" ELSE "createTable"]
  /\ UNCHANGED <<now, ticks, facts, facts_fts, uuids, calls, vectors, tasks>>

\* this.table = await this.db.openTable(LANCE_TABLE); doInitialize returns.
DbOpenTable ==
  /\ ret.initPromise = "openTable"
  /\ ret' = [ret EXCEPT !.table = TRUE, !.initPromise = "resolved"]
  /\ UNCHANGED <<now, ticks, facts, facts_fts, uuids, calls, vectors, tasks>>

\* this.table = await this.db.createTable(LANCE_TABLE, [seed row])
DbCreateTable ==
  /\ ret.initPromise = "createTable"
  /\ ret' = [ret EXCEPT !.table = TRUE, !.tables = @ \cup {LANCE_TABLE},
                        !.initPromise = "deleteSeed"]
  /\ vectors' = <<SeedRow>>
  /\ UNCHANGED <<now, ticks, facts, facts_fts, uuids, calls, tasks>>

\* await this.table.delete('id = "__schema__"'); doInitialize returns.
DbDeleteSeed ==
  /\ ret.initPromise = "deleteSeed"
  /\ ret' = [ret EXCEPT !.initPromise = "resolved"]
  /\ vectors' = VectorDeleted(vectors, SchemaId)
  /\ UNCHANGED <<now, ticks, facts, facts_fts, uuids, calls, tasks>>

\* One of the awaits of doInitialize rejects, and with it initPromise.
DbRejects ==
  /\ ret.initPromise \in InitPending
  /\ ret' = [ret EXCEPT !.initPromise = "rejected"]
  /\ UNCHANGED <<now, ticks, facts, facts_fts, uuids, calls, vectors, tasks>>

\* initPromise has resolved: an operation awaiting it goes on.
VectorDbInitialized(t) ==
  /\ tasks[t].pc = "awaitInit"
  /\ ret.initPromise = "resolved"
  /\ tasks' = [tasks EXCEPT ![t].pc = "touch"]
  /\ UNCHANGED <<now, ticks, facts, facts_fts, uuids, calls, ret, vectors>>

\* initPromise has rejected: an operation awaiting it rejects.
VectorDbInitRejected(t) ==
  /\ tasks[t].pc = "awaitInit"
  /\ ret.initPromise = "rejected"
  /\ tasks' = [tasks EXCEPT ![t].pc = "done", ![t].action = "rejected"]
  /\ UNCHANGED <<now, ticks, facts, facts_fts, uuids, calls, ret, vectors>>

\* search, hasDuplicate and count read this.table; rows is the table as the
\* operation finds it.
VectorDbReads(t) ==
  /\ tasks[t].pc = "touch"
  /\ tasks[t].params.op \in {"search", "hasDuplicate", "count"}
  /\ \E val \in (CASE tasks[t].params.op = "search" ->
                        VectorSearchResults(vectors, 5, Rat(3, 10))
                   [] tasks[t].params.op = "hasDuplicate" ->
                        VectorHasDuplicateResults(vectors, tasks[t].params.text)
                   [] OTHER -> {Len(vectors)}) :
       tasks' = [tasks EXCEPT ![t].pc = "done", ![t].action = "returned",
                              ![t].rows = vectors, ![t].val = val]
  /\ UNCHANGED <<now, ticks, facts, facts_fts, uuids, calls, ret, vectors>>

\* store deletes the row of the id from this.table ...
VectorDbStoreDeletes(t) ==
  /\ tasks[t].pc = "touch"
  /\ tasks[t].params.op = "store"
  /\ vectors' = VectorDeleted(vectors, tasks[t].id)
  /\ tasks' = [tasks EXCEPT ![t].pc = "add", ![t].rows = vectors]
  /\ UNCHANGED <<now, ticks, facts, facts_fts, uuids, calls, ret>>

\* ... and adds the new one.
VectorDbStoreAdds(t) ==
  /\ tasks[t].pc = "add"
  /\ tasks[t].tool = "VectorDB"
  /\ vectors' = VectorAdded(vectors, tasks[t].id, tasks[t].params, now)
  /\ tasks' = [tasks EXCEPT ![t].pc = "done", ![t].action = "returned", ![t].val = tasks[t].id]
  /\ UNCHANGED <<now, ticks, facts, facts_fts, uuids, calls, ret>>

\* Operations of one VectorDB object, called while it initializes, with a
\* backend that may reject.
NextVectorDb ==
  \/ \E t \in 1..MaxTasks : VectorDbCalled(t)
  \/ DbConnected
  \/ DbTableNames
  \/ DbOpenTable
  \/ DbCreateTable
  \/ DbDeleteSeed
  \/ DbRejects
  \/ \E t \in 1..MaxTasks : VectorDbInitialized(t)
  \/ \E t \in 1..MaxTasks : VectorDbInitRejected(t)
  \/ \E t \in 1..MaxTasks : VectorDbReads(t)
  \/ \E t \in 1..MaxTasks : VectorDbStoreDeletes(t)
  \/ \E t \in 1..MaxTasks : VectorDbStoreAdds(t)

SpecVectorDb == InitVectorDb /\ [][NextVectorDb]_vars

(***************************************************************************)
(* Claims                                                                  *)
(***************************************************************************)
\* C1: after any sequence of FactsDB operations the facts table never holds
\* two records whose entity and key are both non-empty and equal
\* case-insensitively.
C1_UniqueEntityKey ==
  \A r, s \in facts :
    (/\ r.rowid # s.rowid
     /\ Truthy(r.entity) /\ Truthy(r.key)
     /\ Truthy(s.entity) /\ Truthy(s.key))
    => ~(/\ ToLowerCase(r.entity) = ToLowerCase(s.entity)
         /\ ToLowerCase(r.key) = ToLowerCase(s.key))

\* C2: store of a candidate whose entity and key are both non-empty and
\* match an existing record case-insensitively inserts no row: count() is
\* unchanged, the existing record keeps its id (the id returned), its other
\* columns are replaced by the candidate's values, and lookup(entity, key)
\* afterwards returns exactly that one record.
C2_UpsertReplaces ==
  [][(ret'.op \in {"store", "saveCheckpoint"}) =>
       LET e == ret'.arg
           matches == {r \in facts :
                         /\ Truthy(e.entity) /\ Truthy(e.key)
                         /\ Truthy(r.entity) /\ Truthy(r.key)
                         /\ ToLowerCase(r.entity) = ToLowerCase(e.entity)
                         /\ ToLowerCase(r.key) = ToLowerCase(e.key)}
       IN matches # {} =>
            /\ ~ret'.threw
            /\ Cardinality(facts') = Cardinality(facts)
            /\ \E old \in matches :
                 /\ ret'.val.id = old.id
                 /\ \E new \in facts' :
                      /\ new.id = old.id /\ new.rowid = old.rowid
                      /\ new.text = e.text /\ new.value = e.value
                      /\ new.importance = e.importance /\ new.category = e.category
                      /\ new.source = e.source /\ new.created_at = now
                      /\ new.last_confirmed_at = now
                      /\ new.decay_class = ret'.val.decayClass
                      /\ new.expires_at = ret'.val.expiresAt
                      /\ new.confidence = ret'.val.confidence
                      /\ {r \in facts' : /\ ToLowerCase(r.entity) = ToLowerCase(e.entity)
                                         /\ ToLowerCase(r.key) = ToLowerCase(e.key)
                                         /\ (r.expires_at = NULLT \/ r.expires_at > now)}
                           = {new}]_vars

C4_NoExpiredReturned ==
  [][/\ (ret'.op = "lookup" \/ (ret'.op = "search" /\ ~ret'.includeExpired)) =>
          \A i \in 1..Len(ret'.val) :
            /\ ret'.val[i].entry.expiresAt = NULLT \/ ret'.val[i].entry.expiresAt > now
            /\ \A r \in facts : r.id = ret'.val[i].entry.id =>
                 (r.expires_at = NULLT \/ r.expires_at > now)
     /\ (ret'.op = "restoreCheckpoint" /\ ret'.row # NULLT) =>
          \A r \in facts : r.id = ret'.row => (r.expires_at = NULLT \/ r.expires_at > now)
    ]_vars

\* C4 witness: a default search has returned a record while a record that
\* matches the query and expired (not pruned) is still in the table.
C4_Witness ==
  /\ ret.op = "search" /\ ~ret.includeExpired /\ Len(ret.val) > 0
  /\ \E r \in facts :
       /\ r.expires_at # NULLT /\ r.expires_at <= now
       /\ \E f \in facts_fts : f.rowid = r.rowid /\ FtsMatch(f, CompileQueryOf(ret.query))

\* C5: a record with decayClass = permanent is never removed by pruneExpired.
C5_PermanentNeverPruned ==
  [][ret'.op = "pruneExpired" =>
       \A r \in facts : r.decay_class = "permanent" => r \in facts']_vars

\* C5, amended: a permanent record whose expiresAt is null (every permanent
\* record stored without a caller-supplied expiresAt) leaves the table only
\* by delete; pruneExpired removes no record whose expiresAt is null, and
\* removes a permanent record only if it was given a non-null expiresAt < now.
C5_NeverExpiringKept ==
  [][/\ \A r \in facts :
          (r.decay_class = "permanent" /\ r.expires_at = NULLT
             /\ ~\E n \in facts' : n.id = r.id)
          => ret'.op = "delete"
     /\ ret'.op = "pruneExpired" =>
          \A r \in facts : r \notin facts' => (r.expires_at # NULLT /\ r.expires_at < now)
    ]_vars

\* C5 witness: pruneExpired has run a day after a permanent record was
\* stored, and the record is still in the table.
C5_Witness ==
  /\ ret.op = "pruneExpired"
  /\ \E r \in facts :
       r.decay_class = "permanent" /\ r.expires_at = NULLT /\ r.created_at < now

\* C6: pruneExpired at time now deletes exactly the records with non-null
\* expiresAt < now, leaves every other record unchanged, and returns
\* {count, ids} with ids the set of deleted ids and count = |ids|.
C6_PruneExact ==
  [][ret'.op = "pruneExpired" =>
       /\ facts' = {r \in facts : ~(r.expires_at # NULLT /\ r.expires_at < now)}
       /\ facts_fts' = {f \in facts_fts : \E r \in facts' : r.rowid = f.rowid}
       /\ ret'.ids = {r.id : r \in facts \ facts'}
       /\ ret'.count = Cardinality(ret'.ids)]_vars

\* C6 witness: pruneExpired has deleted a record and left another one in
\* the table.
C6_Witness ==
  /\ ret.op = "pruneExpired" /\ ret.count > 0
  /\ facts # {}

\* C7: in every reachable state, for every record, decayClass = permanent
\* if and only if expiresAt is null.
C7_PermanentIffNever ==
  \A r \in facts : (r.decay_class = "permanent") <=> (r.expires_at = NULLT)

\* C7, amended: a record violates "permanent iff expiresAt null" only if a
\* store() with a caller-supplied expiresAt wrote it so: after every step,
\* each violating record either violated it before the step or is the record
\* written by this step's store() with an explicit expiresAt.  Access
\* refresh, confirmFact, backfillDecayClasses, decayConfidence, pruneExpired
\* and re-opening the database never break the equivalence.
C7_BrokenOnlyByExplicitExpiry ==
  [][\A n \in facts' :
       ((n.decay_class = "permanent") # (n.expires_at = NULLT)) =>
         \/ \E o \in facts :
              o.id = n.id /\ ((o.decay_class = "permanent") # (o.expires_at = NULLT))
         \/ /\ ret'.op = "store"
            /\ ret'.arg.expiresAt # UNDEFT
            /\ ret'.val.id = n.id]_vars

\* C7 witness: confirmFact has rewritten the expiresAt of a permanent record
\* in a table that also holds a record of another class.
C7_Witness ==
  /\ ret.op = "confirmFact" /\ ret.val
  /\ \E r \in facts : r.id = ret.id /\ r.decay_class = "permanent" /\ r.last_confirmed_at = now
  /\ \E r \in facts : r.decay_class # "permanent"

\* C8: in every reachable state, every record with decayClass # permanent
\* has expiresAt > createdAt and expiresAt >= lastConfirmedAt > 0.
C8_ExpiryAfterTimestamps ==
  \A r \in facts :
    r.decay_class # "permanent" =>
      /\ r.expires_at # NULLT
      /\ r.expires_at > r.created_at
      /\ r.expires_at >= r.last_confirmed_at
      /\ r.last_confirmed_at > 0

\* C8, amended: a non-permanent record has expiresAt > createdAt and
\* expiresAt >= lastConfirmedAt > 0 unless a store() with a caller-supplied
\* expiresAt wrote it otherwise: after every step, each record that violates
\* the inequalities either violated them before the step or is the record
\* written by this step's store() with an explicit expiresAt.
C8_BrokenOnlyByExplicitExpiry ==
  [][\A n \in facts' :
       (n.decay_class # "permanent" /\
          ~(/\ n.expires_at # NULLT
            /\ n.expires_at > n.created_at
            /\ n.expires_at >= n.last_confirmed_at
            /\ n.last_confirmed_at > 0)) =>
         \/ \E o \in facts :
              /\ o.id = n.id
              /\ o.decay_class # "permanent"
              /\ ~(/\ o.expires_at # NULLT
                   /\ o.expires_at > o.created_at
                   /\ o.expires_at >= o.last_confirmed_at
                   /\ o.last_confirmed_at > 0)
         \/ /\ ret'.op = "store"
            /\ ret'.arg.expiresAt # UNDEFT
            /\ ret'.val.id = n.id]_vars

\* C8 witness: lookup has refreshed a stable record in the second it was
\* created in (lastConfirmedAt = createdAt = now, expiresAt extended).
C8_Witness ==
  /\ ret.op = "lookup" /\ Len(ret.val) > 0
  /\ \E r \in facts :
       /\ r.id = ret.val[1].entry.id
       /\ r.decay_class = "stable"
       /\ r.created_at = now /\ r.last_confirmed_at = now
       /\ r.expires_at = now + TTL_DEFAULTS.stable

\* C9: in every reachable state every record has 0.05 <= confidence <= 1.0.
C9_ConfidenceInRange ==
  \A r \in facts : RLe(Rat(5, 100), r.confidence) /\ RLe(r.confidence, ROne)

\* C9, amended: a record's confidence is outside [0.05, 1.0] only if a
\* store() with a caller-supplied confidence wrote it so: after every step,
\* each record with a confidence out of range either had one before the step
\* or is the record written by this step's store() with an explicit
\* confidence.  decayConfidence, access refresh, confirmFact and
\* backfillDecayClasses never take a confidence out of the range.
C9_BrokenOnlyByExplicitConfidence ==
  [][\A n \in facts' :
       ~(RLe(Rat(5, 100), n.confidence) /\ RLe(n.confidence, ROne)) =>
         \/ \E o \in facts :
              o.id = n.id /\ ~(RLe(Rat(5, 100), o.confidence) /\ RLe(o.confidence, ROne))
         \/ /\ ret'.op = "store"
            /\ ret'.arg.confidence # UndefConf
            /\ ret'.val.id = n.id]_vars

\* C9 witness: decayConfidence has brought a record down to the floor 0.05.
C9_Witness ==
  /\ ret.op = "decayConfidence" /\ ret.val > 0
  /\ \E r \in facts : r.confidence = Rat(5, 100) /\ r.expires_at > now

\* C10: every result of search has score = 0.60*bm25 + 0.25*freshness +
\* 0.15*confidence with freshness 1.0 if expiresAt is null, 0.0 if expiresAt
\* <= now, else min(1.0, (expiresAt - now)/(7*86400)); bm25 = 1 - (rank -
\* minRank)/max(1, maxRank - minRank) over the fetched candidates; confidence
\* the record's stored confidence.
C10_ScoreFormula ==
  [][ret'.op = "search" =>
       \A i \in 1..Len(ret'.val) :
         \E j \in 1..Len(ret'.fetched) :
           LET row == ret'.fetched[j].row
               rank == ret'.fetched[j].rank
               ranks == [k \in 1..Len(ret'.fetched) |-> ret'.fetched[k].rank]
               minRank == SeqMinR(ranks)
               maxRank == SeqMaxR(ranks)
               freshness == IF row.expires_at = NULLT THEN ROne
                            ELSE IF row.expires_at <= now THEN RZero
                            ELSE RMin(ROne, Rat(row.expires_at - now, 7 * 86400))
               bm25 == RSub(ROne, RDiv(RSub(rank, minRank),
                                       RMax(ROne, RSub(maxRank, minRank))))
           IN /\ row.id = ret'.val[i].entry.id
              /\ row \in facts
              /\ ret'.val[i].score =
                   RAdd(RAdd(RMul(Rat(60, 100), bm25), RMul(Rat(25, 100), freshness)),
                        RMul(Rat(15, 100), row.confidence))]_vars

\* C11: for every query and every limit >= 1, search returns at most limit
\* results, ordered by non-increasing score.
C11_AtMostLimitSortedByScore ==
  [][ret'.op = "search" =>
       /\ Len(ret'.val) <= ret'.limit
       /\ \A i \in 1..(Len(ret'.val) - 1) : RLe(ret'.val[i + 1].score, ret'.val[i].score)]_vars

\* A search fetched two candidates, better rank first, and returned them in
\* the other order because the second scores higher; another search cut two
\* candidates to a limit of one.
C11_Witness ==
  /\ ret.op = "search"
  /\ Len(ret.fetched) = 2
  /\ \/ /\ ret.limit = 2
        /\ ret.val[1].entry.id = ret.fetched[2].row.id
        /\ RLt(ret.val[2].score, ret.val[1].score)
     \/ /\ ret.limit = 1
        /\ Len(ret.val) = 1
        /\ ret.val[1].entry.id = ret.fetched[2].row.id

\* C12 (as stated): the output of mergeResults never holds two entries with
\* the same id, nor a vector entry whose text equals, case-insensitively,
\* the text of another entry of the output; whenever an id or a case-folded
\* text occurs in both lists, no vector entry with it is in the output, and
\* a lexical entry with it is, unless the limit cut the output.
C12_LexicalWinsEveryTie ==
  [][ret'.op = "mergeResults" =>
       LET out == ret'.val
           s == ret'.sqlite
           l == ret'.lance
       IN /\ \A i, j \in 1..Len(out) : i # j => out[i].entry.id # out[j].entry.id
          /\ \A i, j \in 1..Len(out) :
               i # j /\ out[i].backend = "lancedb" =>
                 ToLowerCase(out[i].entry.text) # ToLowerCase(out[j].entry.text)
          /\ \A p \in 1..Len(s), q \in 1..Len(l) :
               \/ s[p].entry.id = l[q].entry.id
               \/ ToLowerCase(s[p].entry.text) = ToLowerCase(l[q].entry.text)
               => /\ \A i \in 1..Len(out) : out[i] # l[q]
                  /\ Len(out) < ret'.limit =>
                       \E i \in 1..Len(out) :
                          /\ out[i].backend = "sqlite"
                          /\ \/ out[i].entry.id = l[q].entry.id
                             \/ ToLowerCase(out[i].entry.text) = ToLowerCase(l[q].entry.text)]_vars

\* C12, amended: as C12, with a tie by text counted only against a lexical
\* entry that is the first of the lexical list with its id (the later ones
\* are dropped before the vector list is read, and with them their texts).
C12_LexicalWinsKeptTies ==
  [][ret'.op = "mergeResults" =>
       LET out == ret'.val
           s == ret'.sqlite
           l == ret'.lance
           First(p) == \A k \in 1..(p - 1) : s[k].entry.id # s[p].entry.id
       IN /\ \A i, j \in 1..Len(out) : i # j => out[i].entry.id # out[j].entry.id
          /\ \A i, j \in 1..Len(out) :
               i # j /\ out[i].backend = "lancedb" =>
                 ToLowerCase(out[i].entry.text) # ToLowerCase(out[j].entry.text)
          /\ \A p \in 1..Len(s), q \in 1..Len(l) :
               \/ s[p].entry.id = l[q].entry.id
               \/ First(p) /\ ToLowerCase(s[p].entry.text) = ToLowerCase(l[q].entry.text)
               => /\ \A i \in 1..Len(out) : out[i] # l[q]
                  /\ Len(out) < ret'.limit =>
                       \E i \in 1..Len(out) :
                          /\ out[i].backend = "sqlite"
                          /\ \/ out[i].entry.id = l[q].entry.id
                             \/ ToLowerCase(out[i].entry.text) = ToLowerCase(l[q].entry.text)]_vars

\* A lexical and a vector result with different ids and texts that differ
\* in case only, the vector one scoring higher: the lexical one alone is
\* returned.
C12_Witness ==
  /\ ret.op = "mergeResults"
  /\ Len(ret.sqlite) = 1
  /\ Len(ret.lance) = 1
  /\ ret.sqlite[1].entry.id # ret.lance[1].entry.id
  /\ ret.sqlite[1].entry.text # ret.lance[1].entry.text
  /\ ToLowerCase(ret.sqlite[1].entry.text) = ToLowerCase(ret.lance[1].entry.text)
  /\ RLt(ret.sqlite[1].score, ret.lance[1].score)
  /\ ret.limit = 2
  /\ ret.val = ret.sqlite

C14_RestoreReturnsLatestSaved ==
  [][/\ (calls' # calls /\ ret'.op = "saveCheckpoint") =>
          \E ctx \in Contexts, r \in facts' :
            /\ ret'.arg = CheckpointEntry(ctx, now)
            /\ ~ret'.threw
            /\ r.id = ret'.val.id
            /\ r.text = JsonStringify(ctx, ToISOString(now))
            /\ r.created_at = now
            /\ r.expires_at = now + TTL_DEFAULTS.checkpoint
     /\ (calls' # calls /\ ret'.op = "restoreCheckpoint") =>
          LET live == {r \in facts : r.source = "checkpoint"
                                      /\ now < r.created_at + TTL_DEFAULTS.checkpoint}
              Member(name) == {ret'.val.members[i][2] :
                                 i \in {j \in 1..Len(ret'.val.members) :
                                          ret'.val.members[j][1] = name}}
          IN IF live = {} THEN ret'.val.id = NULLT
             ELSE \E r \in live, ctx \in Contexts :
                    /\ \A s \in live : s.created_at <= r.created_at
                    /\ r.text = JsonStringify(ctx, ToISOString(r.created_at))
                    /\ ret'.val.id = r.id
                    /\ Member(<<"i","n","t","e","n","t">>) = {ctx.intent}
                    /\ Member(<<"s","t","a","t","e">>) = {ctx.state}
                    /\ Member(<<"e","x","p","e","c","t","e","d","O","u","t","c","o","m","e">>) =
                         (IF ctx.expectedOutcome = UNDEF THEN {} ELSE {ctx.expectedOutcome})
                    /\ Member(<<"w","o","r","k","i","n","g","F","i","l","e","s">>) =
                         (IF ctx.workingFiles = NoFiles THEN {} ELSE {ctx.workingFiles})
    ]_vars

\* Two checkpoints with different contexts were saved an hour apart; now the
\* first has expired and the second has not, and restoreCheckpoint has
\* returned the second.
C14_Witness ==
  /\ ret.op = "restoreCheckpoint"
  /\ \E r, s \in facts :
       /\ r.source = "checkpoint" /\ s.source = "checkpoint"
       /\ r.created_at < s.created_at
       /\ r.expires_at <= now
       /\ s.expires_at > now
       /\ r.value # s.value
       /\ ret.val.id = s.id

\* C15: when embed or the vector search fails during memory_recall or
\* before_agent_start, the run still returns, with the lexical results fused
\* with an empty vector list, and changes no record; when embed or a vector
\* call fails during memory_store, the call returns action=created and the
\* lexical record it stored is still there.
C15_VectorFailureKeepsLexicalPath ==
  [][\A t \in 1..MaxTasks :
       /\ (/\ tasks[t].pc \in {"recallEmbed", "recallSearch"}
           /\ tasks'[t].pc = "done"
           /\ tasks'[t].failed) =>
            /\ tasks'[t].action = "returned"
            /\ tasks'[t].results = mergeResults(tasks[t].sqlite, <<>>, tasks[t].mergeLimit)
            /\ \A i \in 1..Len(tasks'[t].results) : tasks'[t].results[i].backend = "sqlite"
            /\ facts' = facts
       /\ (/\ tasks[t].pc \in {"embed", "hasDuplicate", "delete", "add"}
           /\ tasks'[t].pc = "done") =>
            /\ tasks'[t].action = "created"
            /\ facts' = facts
            /\ \E r \in facts' : r.id = tasks[t].id]_vars

\* A memory_store call whose vector write failed has returned created (its
\* record is in the lexical store and not in the vector table), and a
\* memory_recall whose vector path failed has returned that record.
C15_Witness ==
  \E t, u \in 1..MaxTasks :
    /\ tasks[t].pc = "done" /\ tasks[t].action = "created"
    /\ \E r \in facts : r.id = tasks[t].id
    /\ vectors = <<>>
    /\ tasks[u].pc = "done" /\ tasks[u].action = "returned"
    /\ tasks[u].tool = "memory_recall"
    /\ tasks[u].failed
    /\ \E i \in 1..Len(tasks[u].results) : tasks[u].results[i].entry.id = tasks[t].id

\* C16: memory_prune(mode): mode 'soft' deletes no record from either store
\* and changes only confidence values; mode 'hard' deletes exactly the
\* records with a non-null expiresAt < now, changes no confidence, and hands
\* exactly the deleted ids to vectorDb.deleteMany; mode 'both' (the default)
\* deletes as 'hard' does and then decays the confidence of what is left.
C16_PruneModes ==
  [][\A t \in 1..MaxTasks :
       (/\ tasks[t].pc = "idle" /\ tasks'[t].pc # "idle"
        /\ "tool" \in DOMAIN tasks'[t]
        /\ tasks'[t].tool = "memory_prune") =>
         LET mode == IF tasks'[t].params.mode = "undefined" THEN "both"
                     ELSE tasks'[t].params.mode
             expired == {r \in facts : r.expires_at # NULLT /\ r.expires_at < now}
             gone == {r \in facts : \A s \in facts' : s.id # r.id}
             OnlyConfidence == \A s \in facts' : \E r \in facts :
                                  s = [r EXCEPT !.confidence = s.confidence]
             passed == {tasks'[t].deletedIds[i] : i \in 1..Len(tasks'[t].deletedIds)}
             Soft == \A r \in facts \ gone : \E s \in facts' :
                       /\ s.id = r.id
                       /\ s.confidence =
                            IF r \in DecaySelected(facts, now) THEN DecayedConfidence(r, now)
                            ELSE r.confidence
         IN /\ vectors' = vectors
            /\ OnlyConfidence
            /\ mode = "soft" =>
                 /\ gone = {} /\ passed = {} /\ tasks'[t].pc = "done"
                 /\ Cardinality(facts') = Cardinality(facts)
                 /\ Soft
            /\ mode = "hard" =>
                 /\ gone = expired
                 /\ facts' = facts \ expired
                 /\ passed = {r.id : r \in expired}
                 /\ Len(tasks'[t].deletedIds) = Cardinality(expired)
            /\ mode = "both" =>
                 /\ gone = expired
                 /\ passed = {r.id : r \in expired}
                 /\ Soft
            /\ tasks'[t].pc = "deleteMany" <=> passed # {}]_vars

\* A session record stored in both stores has expired; memory_prune without
\* a mode has deleted it from the lexical store, lowered the confidence of a
\* record that is left, and is handing its id to deleteMany.
C16_Witness ==
  \E t \in 1..MaxTasks :
    /\ tasks[t].pc = "deleteMany"
    /\ tasks[t].params.mode = "undefined"
    /\ tasks[t].softDecayed > 0
    /\ \E i \in 1..Len(vectors) : vectors[i].id = tasks[t].deletedIds[1]
    /\ \A r \in facts : r.id # tasks[t].deletedIds[1]
    /\ \E r \in facts : RLt(r.confidence, ROne)

\* C17: memory_checkpoint with action save and a missing or empty intent or
\* state returns the error missing_param and changes neither store, and it
\* is the only save that stores nothing; memory_forget with neither a
\* memoryId nor a query returns the error missing_param and changes neither
\* store.
C17_MissingParamChangesNothing ==
  [][/\ (calls' # calls /\ ret'.op = "memory_checkpoint") =>
          /\ ret'.params.action = "save"
          /\ ~Truthy(ret'.params.intent) \/ ~Truthy(ret'.params.state)
          /\ ret'.details.error = "missing_param"
          /\ facts' = facts /\ facts_fts' = facts_fts /\ vectors' = vectors
     /\ (calls' # calls /\ ret'.op = "saveCheckpoint") =>
          \E ctx \in Contexts :
            /\ Truthy(ctx.intent) /\ Truthy(ctx.state)
            /\ ret'.arg = CheckpointEntry(ctx, now)
     /\ \A t \in 1..MaxTasks :
          (/\ tasks[t].pc = "idle" /\ tasks'[t].pc # "idle"
           /\ "tool" \in DOMAIN tasks'[t]
           /\ tasks'[t].tool = "memory_forget") =>
            IF ~IdGiven(tasks'[t].params.memoryId) /\ ~Truthy(tasks'[t].params.query)
            THEN /\ tasks'[t].pc = "done"
                 /\ tasks'[t].action = "missing_param"
                 /\ facts' = facts /\ facts_fts' = facts_fts /\ vectors' = vectors
            ELSE tasks'[t].action # "missing_param"]_vars

\* With a live checkpoint and a stored vector, a save without a state has returned
\* missing_param, and so has a memory_forget with an empty query and no id.
C17_Witness ==
  /\ ret.op = "memory_checkpoint"
  /\ ret.details.error = "missing_param"
  /\ ret.params.state = <<>>
  /\ \E r \in facts : r.source = "checkpoint" /\ r.expires_at > now
  /\ Len(vectors) > 0
  /\ \E t \in 1..MaxTasks :
       /\ tasks[t].pc = "done"
       /\ tasks[t].action = "missing_param"
       /\ tasks[t].params.query = <<>>

C19_AutoCaptureWritesAtMostThree ==
  [][\A t \in 1..MaxTasks :
       (tasks'[t] # tasks[t] /\ "tool" \in DOMAIN tasks'[t] /\ tasks'[t].tool = "agent_end") =>
         LET event == tasks'[t].params
             before == IF tasks[t].pc = "idle" THEN 0 ELSE tasks[t].written
             warnedBefore == IF tasks[t].pc = "idle" THEN 0 ELSE tasks[t].warned
             wrote == facts' # facts \/ facts_fts' # facts_fts
         IN /\ (~event.success \/ ~event.hasMessages \/ event.messages = <<>>) =>
                 /\ ~wrote /\ vectors' = vectors
                 /\ tasks'[t].pc = "done" /\ tasks'[t].written = 0
            /\ tasks'[t].written <= 3
            /\ tasks'[t].written \in {before, before + 1}
            /\ tasks'[t].pc \in {"capEmbed", "capHasDuplicate", "capDelete", "capAdd", "done"}
            /\ wrote =>
                 /\ tasks'[t].written = before + 1
                 /\ ret'.op = "store" /\ ~ret'.threw
                 /\ Cardinality(facts' \ facts) = 1
                 /\ \A r \in facts' \ facts : r.text = ret'.arg.text
                 /\ \E i \in 1..Len(event.messages) :
                      /\ event.messages[i].role = "user"
                      /\ \/ /\ event.messages[i].content.kind = "string"
                            /\ event.messages[i].content.text = ret'.arg.text
                         \/ \E b \in 1..Len(event.messages[i].content.blocks) :
                              /\ event.messages[i].content.blocks[b].type = "text"
                              /\ event.messages[i].content.blocks[b].text = ret'.arg.text
                 /\ shouldCapture(ret'.arg.text)
                 /\ ~SomeTest(SENSITIVE_PATTERNS, ret'.arg.text)
                 /\ ~Includes(ret'.arg.text, <<"<","r","e","l","e","v","a","n","t","-","m","e","m","o","r","i","e","s",">">>)
                 /\ ret'.arg.entity # NULL \/ ret'.arg.key # NULL
                 /\ \A r \in facts : r.text # ret'.arg.text
            /\ (ret' # ret /\ ret'.threw) =>
                 /\ ~wrote
                 /\ tasks'[t].pc = "done" /\ tasks'[t].action = "failed"
                 /\ tasks'[t].warned > warnedBefore]_vars

\* One handler has written three of the four facts of its event; another,
\* whose event holds a password and a <relevant-memories> text, wrote one
\* record and ended in the outer catch when store() threw.
C19_Witness ==
  \E t, u \in 1..MaxTasks :
    /\ tasks[t].pc = "done" /\ tasks[t].action = "captured"
    /\ tasks[t].params.messages = FourFacts
    /\ tasks[t].written = 3
    /\ Cardinality({r \in facts : r.source = "auto-capture"}) >= 3
    /\ tasks[u].pc = "done" /\ tasks[u].action = "failed"
    /\ tasks[u].params.messages = MixedTurn
    /\ tasks[u].warned >= 1

\* The record of this id is of class session or checkpoint.
ShortLived(id) == \E r \in facts : r.id = id /\ r.decay_class \in {"session", "checkpoint"}

\* The last call re-stored (upserted) or confirmed the record of this id.
Touched(id) ==
  \/ ret.op \in {"store", "saveCheckpoint"} /\ ~ret.threw /\ ret.val.id = id
  \/ ret.op = "confirmFact" /\ ret.id = id /\ ret.val

\* C20 as stated: every record of class session or checkpoint is in the end
\* deleted from the lexical store, unless it is re-stored or confirmed.
C20_ShortLivedEventuallyDeleted ==
  \A id \in LiveIds :
    ShortLived(id) ~> ((\A r \in facts : r.id # id) \/ Touched(id))

\* C20: under a clock that keeps advancing and a maintenance tick that keeps
\* firing, every record of class session or checkpoint whose expiresAt is
\* not null is in the end deleted from the lexical store unless it is
\* re-stored or confirmed, however often search or lookup return it.
C20_ExpiringShortLivedEventuallyDeleted ==
  \A id \in LiveIds :
    (\E r \in facts : r.id = id /\ r.decay_class \in {"session", "checkpoint"}
                      /\ r.expires_at # NULLT)
      ~> ((\A r \in facts : r.id # id) \/ Touched(id))

\* A search or lookup returned a session or checkpoint record, and the
\* maintenance tick has deleted it since.
C20_Witness ==
  /\ ret.op \in {"search", "lookup"}
  /\ ticks >= 1
  /\ \E i \in 1..Len(ret.val) :
       /\ ret.val[i].entry.decayClass \in {"session", "checkpoint"}
       /\ \A r \in facts : r.id # ret.val[i].entry.id

\* C21: after any sequence of inserts, upserts, deletes, prunes, access
\* refreshes and migrations, the FTS index holds exactly one entry per record
\* of the facts table, with that record's rowid and its current text,
\* category, entity, key, value and search_tags, and no other entry.
C21_FtsMirrorsFacts ==
  /\ facts_fts = {FtsColumns(r) : r \in facts}
  /\ \A f \in facts_fts : Cardinality({r \in facts : r.rowid = f.rowid}) = 1
  /\ \A r \in facts : Cardinality({f \in facts_fts : f.rowid = r.rowid}) = 1

\* The file of the old version was migrated (one of its two rows deleted by
\* migrateUpsertIndex), and store() has since replaced the text of the row
\* that was kept.
C21_Witness ==
  /\ ret.op = "store" /\ ~ret.threw /\ ret.val.id = 102
  /\ \E r \in facts : r.id = 102 /\ r.text = ret.arg.text
                      /\ r.text # FredCursor.text

\* C22: whenever search or lookup returns a record at time now, the
\* record's last_confirmed_at is now afterwards, whatever its decay class.
C22_ReturnedIsConfirmedNow ==
  [][ret'.op \in {"search", "lookup"} =>
       \A i \in 1..Len(ret'.val) :
         \A r \in facts' : r.id = ret'.val[i].entry.id => r.last_confirmed_at = now]_vars

\* C23: search and lookup at time now set expires_at = now + TTL[class] on
\* the records they return that are of class stable or active and not
\* expired, leave expires_at of every other record as it was, and change no
\* record's confidence, text or id (nor add or remove a record).
C23_RefreshExtendsOnlyLiveStableActive ==
  [][ret'.op \in {"search", "lookup"} =>
       LET returned == SeqIds(ret'.val)
       IN /\ {r.id : r \in facts'} = {r.id : r \in facts}
          /\ Cardinality(facts') = Cardinality(facts)
          /\ \A r \in facts : \E n \in facts' :
               /\ n.id = r.id /\ n.rowid = r.rowid
               /\ n.text = r.text /\ n.confidence = r.confidence
               /\ n.decay_class = r.decay_class
               /\ n.expires_at =
                    IF /\ r.id \in returned
                       /\ r.decay_class \in {"stable", "active"}
                       /\ (r.expires_at = NULLT \/ r.expires_at > now)
                    THEN now + TTL_DEFAULTS[r.decay_class]
                    ELSE r.expires_at]_vars

\* A search with includeExpired has returned two stable records a day after
\* they were written: one that had expired, whose expires_at is as it was,
\* and one that had not, whose expires_at is now + 90 days.
C23_Witness ==
  /\ ret.op = "search" /\ ret.includeExpired /\ now > T0
  /\ \E i, j \in 1..Len(ret.val) :
       \E r, s \in facts :
         /\ r.id = ret.val[i].entry.id /\ s.id = ret.val[j].entry.id
         /\ r.decay_class = "stable" /\ s.decay_class = "stable"
         /\ r.expires_at < now
         /\ s.expires_at = now + TTL_DEFAULTS.stable

\* C24: pruneExpired executed at time now removes every non-permanent record
\* whose expires_at is <= now, the records expiring at now included, so that
\* no record search and lookup hide as expired survives it.
C24_PruneRemovesAllHidden ==
  [][ret'.op = "pruneExpired" =>
       \A r \in facts :
         (r.decay_class # "permanent" /\ r.expires_at # NULLT /\ r.expires_at <= now)
           => \A n \in facts' : n.id # r.id]_vars

\* C25 as stated: decayConfidence at time now sets confidence = max(0.05,
\* 1 - (now - lastConfirmedAt)/(expiresAt - lastConfirmedAt)) on every
\* non-permanent record with a positive window, the expired ones included.
C25_DecaysEveryPositiveWindow ==
  [][ret'.op = "decayConfidence" =>
       \A r \in facts :
         (/\ r.decay_class # "permanent"
          /\ r.expires_at # NULLT /\ r.last_confirmed_at # NULLT
          /\ r.expires_at - r.last_confirmed_at > 0)
         => \E n \in facts' :
              /\ n.id = r.id
              /\ n.confidence =
                   RMax(Rat(5, 100),
                        RSub(ROne, Rat(now - r.last_confirmed_at,
                                       r.expires_at - r.last_confirmed_at)))]_vars

\* C25: decayConfidence at time now sets confidence = max(0.05, 1 - (now -
\* lastConfirmedAt)/(expiresAt - lastConfirmedAt)) on every record whose
\* expiresAt is non-null and > now and whose window expiresAt -
\* lastConfirmedAt is positive, leaves every other record as it was, deletes
\* no record, changes no other field and no FTS entry, and returns the
\* number of records it updated.
C25_DecaysLivePositiveWindow ==
  [][ret'.op = "decayConfidence" =>
       LET due(r) == /\ r.expires_at # NULLT /\ r.expires_at > now
                     /\ r.last_confirmed_at # NULLT
                     /\ r.expires_at - r.last_confirmed_at > 0
       IN /\ Cardinality(facts') = Cardinality(facts)
          /\ \A r \in facts :
               IF due(r)
               THEN [r EXCEPT !.confidence =
                       RMax(Rat(5, 100),
                            RSub(ROne, Rat(now - r.last_confirmed_at,
                                           r.expires_at - r.last_confirmed_at)))] \in facts'
               ELSE r \in facts'
          /\ facts_fts' = facts_fts
          /\ ret'.val = Cardinality({r \in facts : due(r)})]_vars

\* decayConfidence has lowered one record to a confidence between the floor
\* and 1, and has left alone a record that expired in this second.
C25_Witness ==
  /\ ret.op = "decayConfidence" /\ ret.val > 0
  /\ \E r \in facts : /\ r.expires_at # NULLT /\ r.expires_at > now
                      /\ RLt(Rat(5, 100), r.confidence) /\ RLt(r.confidence, ROne)
  /\ \E r \in facts : r.expires_at # NULLT /\ r.expires_at <= now /\ r.confidence = ROne

C27_FailedDeleteEventuallyRetried ==
  \A id \in 1..MaxTasks :
    (/\ ret.op = "pruneTimer"
     /\ id \in ret.ids \ ret.deleted
     /\ \E i \in 1..Len(vectors) : vectors[i].id = id /\ vectors[i].createdAt < ret.nowSec)
      ~> (\A i \in 1..Len(vectors) : vectors[i].id # id)

\* C28: memory_forget called with a memoryId that is no UUID, or that
\* randomUUID never handed out (no record of either store has it), does not
\* return details.action = 'deleted'.
C28_ForgetOfNothingNotDeleted ==
  \A t \in 1..MaxTasks :
    (/\ tasks[t].pc = "done"
     /\ "tool" \in DOMAIN tasks[t]
     /\ tasks[t].tool = "memory_forget"
     /\ IdGiven(tasks[t].params.memoryId)
     /\ ~UuidShaped(tasks[t].params.memoryId) \/ tasks[t].params.memoryId > uuids)
      => tasks[t].action # "deleted"

\* C29: VectorDB.delete(id) and VectorDB.deleteMany(ids) skip an id that is
\* no UUID silently: no 'Invalid ID' exception is raised, no row is removed
\* for it, and deleteMany goes on with the remaining ids and counts only
\* those.
C29_NonUuidSkippedSilently ==
  [][calls' # calls =>
       /\ (ret'.op = "vectorDelete" /\ ~UuidShaped(ret'.id))
            => ret'.error # "Invalid ID" /\ vectors' = vectors
       /\ (ret'.op = "vectorDeleteMany")
            => /\ ret'.error # "Invalid ID"
               /\ ret'.val <= Cardinality(DeleteManyTried(ret'.ids))
               /\ \A i \in 1..Len(vectors) :
                    (\A j \in DeleteManyTried(ret'.ids) : ret'.ids[j] # vectors[i].id)
                      => \E k \in 1..Len(vectors') : vectors'[k] = vectors[i]]_vars

\* The orders in which the entries of a list can be given.
Reorderings(s) == {[i \in 1..Len(s) |-> s[p[i]]] : p \in Permutations(1..Len(s))}

\* C30: mergeResults gives the same result, entry by entry, however the
\* entries of the lexical list and those of the vector list are ordered.
C30_MergeOrderInsensitive ==
  ret.op = "mergeResults" =>
    \A s \in Reorderings(ret.sqlite), l \in Reorderings(ret.lance) :
      mergeResults(s, l, ret.limit) = ret.val

\* C31: a call of backfillDecayClasses that follows another with no write
\* in between updates no record and returns no count.
C31_BackfillFixedPoint ==
  [][(ret.op = "backfillDecayClasses" /\ ret'.op = "backfillDecayClasses"
        /\ calls' # calls)
       => /\ facts' = facts
          /\ facts_fts' = facts_fts
          /\ \A dc \in DECAY_CLASSES : ret'.val[dc] = 0]_vars

\* backfillDecayClasses has returned no count on a table in which an earlier
\* call had rewritten a record, which is still there.
C31_Witness ==
  /\ ret.op = "backfillDecayClasses"
  /\ \A dc \in DECAY_CLASSES : ret.val[dc] = 0
  /\ \E s \in Seen : "backfill" \in s.since /\ \E r \in facts : r.id = s.id

\* The rules of each class, on the lowercased key, text and entity.
PermanentRule(entity, key, text) ==
  \/ SomeIncludes(ToLowerCase(OrEmpty(key)), permanentKeys)
  \/ SomeMatchesWord(ToLowerCase(text), permanentIdentityText)
  \/ SomeMatchesWord(ToLowerCase(text), permanentRuleText)
  \/ ToLowerCase(OrEmpty(entity)) \in {<<"d","e","c","i","s","i","o","n">>, <<"c","o","n","v","e","n","t","i","o","n">>}

SessionRule(entity, key, text) ==
  \/ SomeIncludes(ToLowerCase(OrEmpty(key)), sessionKeys)
  \/ SomeMatchesWord(ToLowerCase(text), sessionText)

ActiveRule(entity, key, text) ==
  \/ SomeIncludes(ToLowerCase(OrEmpty(key)), activeKeys)
  \/ ToLowerCase(OrEmpty(entity)) \in {<<"p","r","o","j","e","c","t">>, <<"s","p","r","i","n","t">>}
  \/ SomeMatchesWord(ToLowerCase(text), activeText)

CheckpointRule(entity, key, text) ==
  \/ StartsWith(ToLowerCase(OrEmpty(key)), <<"c","h","e","c","k","p","o","i","n","t",":">>)
  \/ Includes(ToLowerCase(OrEmpty(key)), <<"p","r","e","f","l","i","g","h","t">>)

\* C32: classifyDecay returns permanent for an input that matches a
\* permanent rule, whatever else it matches; otherwise session for one that
\* matches a session rule; otherwise active for one that matches an active
\* rule; otherwise checkpoint for one that matches a checkpoint rule;
\* otherwise stable.
C32_FirstMatchingRuleWins ==
  ret.op = "classifyDecay" =>
    ret.val = (IF PermanentRule(ret.entity, ret.key, ret.text) THEN "permanent"
               ELSE IF SessionRule(ret.entity, ret.key, ret.text) THEN "session"
               ELSE IF ActiveRule(ret.entity, ret.key, ret.text) THEN "active"
               ELSE IF CheckpointRule(ret.entity, ret.key, ret.text) THEN "checkpoint"
               ELSE "stable")

\* An input that matches a rule of every class has been classified
\* permanent.
C32_Witness ==
  /\ ret.op = "classifyDecay"
  /\ PermanentRule(ret.entity, ret.key, ret.text)
  /\ SessionRule(ret.entity, ret.key, ret.text)
  /\ ActiveRule(ret.entity, ret.key, ret.text)
  /\ CheckpointRule(ret.entity, ret.key, ret.text)
  /\ ret.val = "permanent"

\* C33: with store never given an expiresAt or a confidence, every record
\* has decayClass permanent exactly when its expiresAt is null, an expiresAt
\* not before its lastConfirmedAt when it is not permanent, and a confidence
\* from 0.05 to 1.0, whatever calls and clock steps came before.
C33_DerivedRecordsWellFormed ==
  \A r \in facts :
    /\ (r.decay_class = "permanent") <=> (r.expires_at = NULLT)
    /\ r.decay_class # "permanent" => r.expires_at >= r.last_confirmed_at
    /\ RLe(Rat(5, 100), r.confidence) /\ RLe(r.confidence, ROne)

\* A day after they were stored, a call has returned with a permanent
\* record in the table beside a record that is not permanent and that
\* decayConfidence, an access or confirmFact has rewritten.
C33_Witness ==
  /\ now > T0
  /\ ret.op \in {"decayConfidence", "search", "lookup", "confirmFact", "backfillDecayClasses"}
  /\ \E r \in facts : r.decay_class = "permanent" /\ r.expires_at = NULLT
  /\ \E r \in facts :
       /\ r.decay_class # "permanent"
       /\ r.confidence # ROne \/ r.last_confirmed_at = now

\* C34: memory_recall and auto-recall return no memory whose record was
\* already expired when the call started, whichever backend found it.
C34_RecallReturnsOnlyLive ==
  \A t \in 1..MaxTasks :
    (/\ tasks[t].pc = "done"
     /\ tasks[t].action = "returned"
     /\ "tool" \in DOMAIN tasks[t]
     /\ tasks[t].tool \in {"memory_recall", "before_agent_start"})
      => \A i \in 1..Len(tasks[t].results) :
           \A r \in facts :
             r.id = tasks[t].results[i].entry.id
               => r.expires_at = NULLT \/ r.expires_at > tasks[t].at

\* C35: a memory_store call that stores (and so returns action 'created')
\* adds one record to the table unless the caller gave both entity and key.
C35_CreatedInsertsUnlessExplicit ==
  [][\A t \in 1..MaxTasks :
       (/\ tasks[t].pc = "idle"
        /\ tasks'[t].pc = "embed"
        /\ ~(Truthy(tasks'[t].params.entity) /\ Truthy(tasks'[t].params.key)))
         => Cardinality(facts') = Cardinality(facts) + 1]_vars

\* C36: when no facade operation is under way and no call of the vector
\* store has failed, every id in the vector store is the id of a record.
C36_VectorIdsAreLexicalIds ==
  (\A t \in 1..MaxTasks : tasks[t].pc \in {"idle", "done"})
    => \A i \in 1..Len(vectors) : \E r \in facts : r.id = vectors[i].id

\* C37: when a memory_store call whose embedding and vector calls all
\* resolved returns 'created', the vector store holds a row with the id it
\* returns, whose text is the text the record of that id has then.
C37_VectorRowCarriesRecordText ==
  [][\A t \in 1..MaxTasks :
       (/\ tasks[t].pc \in {"hasDuplicate", "add"}
        /\ tasks'[t].pc = "done"
        /\ tasks'[t].action = "created")
         => \A r \in facts' :
              r.id = tasks'[t].id
                => \E i \in 1..Len(vectors') :
                     vectors'[i].id = r.id /\ vectors'[i].text = r.text]_vars

\* C38: no two rows of the vector table have the same id.
C38_VectorIdsUnique ==
  \A i, j \in 1..Len(vectors) : vectors[i].id = vectors[j].id => i = j

\* C39: no operation touches the table while it holds the row '__schema__'.
C39_SeedRowNeverObserved ==
  [][\A t \in 1..MaxTasks :
       (tasks[t].pc = "touch" /\ tasks'[t].pc # "touch")
         => \A i \in 1..Len(vectors) : vectors[i].id # SchemaId]_vars

\* C40: an operation called after doInitialize has rejected, the table not
\* being open, starts doInitialize again.
C40_RejectedInitIsRetried ==
  [][\A t \in 1..MaxTasks :
       (/\ tasks[t].pc = "idle"
        /\ tasks'[t].pc # "idle"
        /\ ret.initPromise = "rejected"
        /\ ~ret.table)
         => ret'.initPromise = "connect"]_vars

====
